---- MODULE Spec2Model ----
(***************************************************************************)
(* Icestorm (iceberg-go/icestorm.go): a line-oriented assembly language    *)
(* compiled by Gen_bytecode into an instruction list plus a label table    *)
(* and executed by the dispatch loop of Run.                               *)
(*                                                                         *)
(* Representation.                                                         *)
(*   - Source text (a line, an operand text, a token, a []byte payload)    *)
(*     is a sequence of one-character strings; Go's string(bytes) is Join. *)
(*   - Map keys (mnemonics, label names, symbol names) are strings.        *)
(*   - An Entity is [Data, E_type].  Data abstracts the little-endian      *)
(*     payload by the value it encodes: an int64 [neg, mag] for T_INT, a   *)
(*     float64 [cls, neg, mag, exp] for T_FLOAT, a boolean for T_BOOL,     *)
(*     the byte sequence for T_STR / T_LABEL / T_UNDET.                    *)
(*   - int64 and float64 are modelled bit for bit on naturals of any size  *)
(*     (sequences of limbs): float64 arithmetic rounds to nearest, ties to *)
(*     even, with the two zeros, the subnormals, the infinities and NaN;   *)
(*     strconv.ParseInt, ParseFloat, FormatInt and FormatFloat and         *)
(*     math.Floor, Sqrt and Pow are translated from Go's library.          *)
(*   - Where Go leaves a result to the build, the model keeps every        *)
(*     outcome: int64(f) for an f that does not fit (FTruncSet), the last  *)
(*     bits of math.Pow with a fractional exponent (FPow), the order in    *)
(*     which dump visits the variable table.  A handler that depends on    *)
(*     one of them has a set of outcomes, and Handler yields a set.        *)
(*   - os.Exit(1) and Go run-time panics end the process: phase "exited".  *)
(***************************************************************************)
EXTENDS Integers, Sequences, FiniteSets, TLC

VARIABLES
    exec_pos,     \* IcebergVM.exec_pos
    Inst_table,   \* IcebergVM.Inst_table : mnemonic -> [fn, N_args]
    label_table,  \* IcebergVM.label_table : label name -> index (0-based)
    var_table,    \* IcebergVM.var_table : symbol -> Entity
    script,       \* the source text the host last handed to Gen_bytecode
    code,         \* the Bytecode value the host holds: [inst_list, label_table]
    phase,        \* the host's position: "idle" | "compiled" | "running" | "exited"
    exit,         \* how the process ended: [kind, msg, pos] ; kind "" while alive
    fetched,      \* Run's local instr: index of the instruction last fetched, -1 before
    runs          \* number of Run calls made so far

vars == <<exec_pos, Inst_table, label_table, var_table, script, code, phase, exit, fetched,
          runs>>

----------------------------------------------------------------------------
(* Iceberg types, icestorm.go:18-27 *)
T_UNDET == 0
T_INT == 1
T_FLOAT == 2
T_BOOL == 4
T_STR == 8
T_LABEL == 16
T_ANY == 31

(* Bitwise AND / XOR of two kind masks (5 bits). *)
Bit(n, i) == (n \div (2^i)) % 2
BitAnd(a, b) ==
    Bit(a, 0) * Bit(b, 0) + 2 * Bit(a, 1) * Bit(b, 1) + 4 * Bit(a, 2) * Bit(b, 2)
    + 8 * Bit(a, 3) * Bit(b, 3) + 16 * Bit(a, 4) * Bit(b, 4)
BitDiff(a, b, i) == IF Bit(a, i) = Bit(b, i) THEN 0 ELSE 1
BitXor(a, b) ==
    BitDiff(a, b, 0) + 2 * BitDiff(a, b, 1) + 4 * BitDiff(a, b, 2)
    + 8 * BitDiff(a, b, 3) + 16 * BitDiff(a, b, 4)

----------------------------------------------------------------------------
(* Text helpers *)

RECURSIVE Join(_)
Join(bs) == IF bs = <<>> THEN "" ELSE bs[1] \o Join(Tail(bs))

Digits == <<"0", "1", "2", "3", "4", "5", "6", "7", "8", "9">>
IsDigit(c) == \E i \in 1..10 : Digits[i] = c
DigitVal(c) == (CHOOSE i \in 1..10 : Digits[i] = c) - 1
AllDigits(bs) == \A i \in 1..Len(bs) : IsDigit(bs[i])

(* strings.IndexRune(s, c) == 0 *)
StartsWith(bs, c) == Len(bs) > 0 /\ bs[1] = c
(* strings.IndexRune(s, c), as a 1-based position; 0 when absent *)
IndexRune(bs, c) ==
    IF \E i \in 1..Len(bs) : bs[i] = c
    THEN CHOOSE i \in 1..Len(bs) : bs[i] = c /\ \A j \in 1..(i-1) : bs[j] # c
    ELSE 0

HasSign(bs) == Len(bs) > 0 /\ bs[1] \in {"+", "-"}
Unsigned(bs) == IF HasSign(bs) THEN Tail(bs) ELSE bs

Abs(n) == IF n < 0 THEN -n ELSE n

----------------------------------------------------------------------------
(***************************************************************************)
(* Natural numbers of any size: little-endian sequences of limbs in        *)
(* 0..Limb-1 with no high zero limb (zero is <<>>).  int64 and the         *)
(* mantissas of float64 do not fit TLC's integers.                         *)
(***************************************************************************)
LimbBits == 5 * 3
Limb == 2^LimbBits

(* An operator of this part of the module has the form                      *)
(*     Op(a_, b_) == CHOOSE out_ \in {( body ) : a \in {a_}, b \in {b_}} : TRUE *)
(* which is body with a, b the values of the arguments: the arguments are   *)
(* evaluated once, where TLC would otherwise evaluate an argument again at  *)
(* every use of the parameter inside ENABLED.                               *)
(*                                                                          *)
(* A loop over lo..hi is an operator XLoop(.., s, lo, hi) that takes the    *)
(* state s through the steps lo, lo + 1, .., hi.  The range is halved so    *)
(* that the evaluation nests to depth log(hi - lo).                         *)
Mid(lo_, hi_) ==
    CHOOSE out_ \in {(
        (lo + hi) \div 2
        ) : lo \in {lo_}, hi \in {hi_}} : TRUE

(* the greatest and the least member of a nonempty set of integers *)
MaxOf(S_) ==
    CHOOSE out_ \in {(
        CHOOSE i \in S : \A j \in S : j <= i
        ) : S \in {S_}} : TRUE
MinOf(S_) ==
    CHOOSE out_ \in {(
        CHOOSE i \in S : \A j \in S : i <= j
        ) : S \in {S_}} : TRUE
(* the positions of the nonzero limbs of a *)
BNonZero(a_) ==
    CHOOSE out_ \in {(
        {i \in 1..Len(a) : a[i] # 0}
        ) : a \in {a_}} : TRUE

(* a without its high zero limbs *)
BTrimTo(a_, nz_) ==
    CHOOSE out_ \in {(
        IF nz = {} THEN <<>> ELSE SubSeq(a, 1, MaxOf(nz))
        ) : a \in {a_}, nz \in {nz_}} : TRUE
BTrim(a_) ==
    CHOOSE out_ \in {(
        BTrimTo(a, BNonZero(a))
        ) : a \in {a_}} : TRUE

RECURSIVE BOfNat(_)
BOfNat(n) == IF n = 0 THEN <<>> ELSE <<n % Limb>> \o BOfNat(n \div Limb)

(* the value as a TLC integer: only for values below 2^31 *)
RECURSIVE BToNat(_)
BToNat(a) == IF a = <<>> THEN 0 ELSE a[1] + Limb * BToNat(Tail(a))
BIsSmall(a_) ==
    CHOOSE out_ \in {(
        Len(a) <= 2
        ) : a \in {a_}} : TRUE

BLimb(a_, i_) ==
    CHOOSE out_ \in {(
        IF i <= Len(a) THEN a[i] ELSE 0
        ) : a \in {a_}, i \in {i_}} : TRUE

(* -1, 0, 1 as a < b, a = b, a > b: decided by the highest limb that differs *)
BCmpTop(a_, b_, top_) ==
    CHOOSE out_ \in {(
        IF a[top] < b[top] THEN -1 ELSE 1
        ) : a \in {a_}, b \in {b_}, top \in {top_}} : TRUE
BCmpAt(a_, b_, diff_) ==
    CHOOSE out_ \in {(
        IF diff = {} THEN 0 ELSE BCmpTop(a, b, MaxOf(diff))
        ) : a \in {a_}, b \in {b_}, diff \in {diff_}} : TRUE
BCmp(a_, b_) ==
    CHOOSE out_ \in {(
        IF Len(a) < Len(b) THEN -1
        ELSE IF Len(a) > Len(b) THEN 1
        ELSE BCmpAt(a, b, {i \in 1..Len(a) : a[i] # b[i]})
        ) : a \in {a_}, b \in {b_}} : TRUE

(* a loop over the limbs keeps the limbs r written so far and the carry c *)
BCarry(r_, v_) ==
    CHOOSE out_ \in {(
        [r |-> Append(r, v % Limb), c |-> v \div Limb]
        ) : r \in {r_}, v \in {v_}} : TRUE
BCarryEnd(s_) ==
    CHOOSE out_ \in {(
        IF s.c = 0 THEN s.r ELSE Append(s.r, s.c)
        ) : s \in {s_}} : TRUE
BLonger(a_, b_) ==
    CHOOSE out_ \in {(
        IF Len(a) > Len(b) THEN Len(a) ELSE Len(b)
        ) : a \in {a_}, b \in {b_}} : TRUE
RECURSIVE BAddLoop(_, _, _, _, _)
BAddLoop(a_, b_, s_, lo_, hi_) ==
    CHOOSE out_ \in {(
        IF lo > hi THEN s
        ELSE IF lo = hi THEN BCarry(s.r, BLimb(a, lo) + BLimb(b, lo) + s.c)
        ELSE BAddLoop(a, b, BAddLoop(a, b, s, lo, Mid(lo, hi)), Mid(lo, hi) + 1, hi)
        ) : a \in {a_}, b \in {b_}, s \in {s_}, lo \in {lo_}, hi \in {hi_}} : TRUE
BAdd(a_, b_) ==
    CHOOSE out_ \in {(
        BCarryEnd(BAddLoop(a, b, [r |-> <<>>, c |-> 0], 1, BLonger(a, b)))
        ) : a \in {a_}, b \in {b_}} : TRUE

(* a - b for a >= b *)
BBorrow(r_, v_) ==
    CHOOSE out_ \in {(
        [r |-> Append(r, (v + Limb) % Limb), c |-> IF v < 0 THEN 1 ELSE 0]
        ) : r \in {r_}, v \in {v_}} : TRUE
RECURSIVE BSubLoop(_, _, _, _, _)
BSubLoop(a_, b_, s_, lo_, hi_) ==
    CHOOSE out_ \in {(
        IF lo > hi THEN s
        ELSE IF lo = hi THEN BBorrow(s.r, a[lo] - BLimb(b, lo) - s.c)
        ELSE BSubLoop(a, b, BSubLoop(a, b, s, lo, Mid(lo, hi)), Mid(lo, hi) + 1, hi)
        ) : a \in {a_}, b \in {b_}, s \in {s_}, lo \in {lo_}, hi \in {hi_}} : TRUE
BSub(a_, b_) ==
    CHOOSE out_ \in {(
        BTrim(BSubLoop(a, b, [r |-> <<>>, c |-> 0], 1, Len(a)).r)
        ) : a \in {a_}, b \in {b_}} : TRUE

(* a * k + c for 0 <= k, c < Limb *)
RECURSIVE BMulAddLoop(_, _, _, _, _)
BMulAddLoop(a_, k_, s_, lo_, hi_) ==
    CHOOSE out_ \in {(
        IF lo > hi THEN s
        ELSE IF lo = hi THEN BCarry(s.r, a[lo] * k + s.c)
        ELSE BMulAddLoop(a, k, BMulAddLoop(a, k, s, lo, Mid(lo, hi)), Mid(lo, hi) + 1, hi)
        ) : a \in {a_}, k \in {k_}, s \in {s_}, lo \in {lo_}, hi \in {hi_}} : TRUE
BMulAdd(a_, k_, c_) ==
    CHOOSE out_ \in {(
        IF k = 0 THEN BOfNat(c) ELSE BCarryEnd(BMulAddLoop(a, k, [r |-> <<>>, c |-> c], 1, Len(a)))
        ) : a \in {a_}, k \in {k_}, c \in {c_}} : TRUE
BMulSmall(a_, k_) ==
    CHOOSE out_ \in {(
        BMulAdd(a, k, 0)
        ) : a \in {a_}, k \in {k_}} : TRUE

BZeros(n_) ==
    CHOOSE out_ \in {(
        [i \in 1..n |-> 0]
        ) : n \in {n_}} : TRUE
(* a * Limb^n *)
BShlLimbs(a_, n_) ==
    CHOOSE out_ \in {(
        IF a = <<>> THEN <<>> ELSE BZeros(n) \o a
        ) : a \in {a_}, n \in {n_}} : TRUE

(* a * b, limb by limb of the shorter factor *)
RECURSIVE BMulLoop(_, _, _, _, _)
BMulLoop(a_, b_, s_, lo_, hi_) ==
    CHOOSE out_ \in {(
        IF lo > hi THEN s
        ELSE IF lo = hi THEN BAdd(s, BShlLimbs(BMulSmall(a, b[lo]), lo - 1))
        ELSE BMulLoop(a, b, BMulLoop(a, b, s, lo, Mid(lo, hi)), Mid(lo, hi) + 1, hi)
        ) : a \in {a_}, b \in {b_}, s \in {s_}, lo \in {lo_}, hi \in {hi_}} : TRUE
BMul(a_, b_) ==
    CHOOSE out_ \in {(
        IF Len(a) < Len(b) THEN BMulLoop(b, a, <<>>, 1, Len(a)) ELSE BMulLoop(a, b, <<>>, 1, Len(b))
        ) : a \in {a_}, b \in {b_}} : TRUE

(* quotient and remainder of a by 0 < k < Limb, from the high limb down *)
BDivLimb(q_, v_, k_) ==
    CHOOSE out_ \in {(
        [q |-> <<v \div k>> \o q, r |-> v % k]
        ) : q \in {q_}, v \in {v_}, k \in {k_}} : TRUE
BDivTrim(s_) ==
    CHOOSE out_ \in {(
        [q |-> BTrim(s.q), r |-> s.r]
        ) : s \in {s_}} : TRUE
RECURSIVE BDivSmallLoop(_, _, _, _, _)
BDivSmallLoop(a_, k_, s_, lo_, hi_) ==
    CHOOSE out_ \in {(
        IF lo > hi THEN s
        ELSE IF lo = hi THEN BDivLimb(s.q, s.r * Limb + a[Len(a) + 1 - lo], k)
        ELSE BDivSmallLoop(a, k, BDivSmallLoop(a, k, s, lo, Mid(lo, hi)), Mid(lo, hi) + 1, hi)
        ) : a \in {a_}, k \in {k_}, s \in {s_}, lo \in {lo_}, hi \in {hi_}} : TRUE
BDivSmall(a_, k_) ==
    CHOOSE out_ \in {(
        BDivTrim(BDivSmallLoop(a, k, [q |-> <<>>, r |-> 0], 1, Len(a)))
        ) : a \in {a_}, k \in {k_}} : TRUE

(* number of bits of 0 < n < Limb, and of a *)
RECURSIVE NatBits(_)
NatBits(n) == IF n = 0 THEN 0 ELSE 1 + NatBits(n \div 2)
BBits(a_) ==
    CHOOSE out_ \in {(
        IF a = <<>> THEN 0 ELSE LimbBits * (Len(a) - 1) + NatBits(a[Len(a)])
        ) : a \in {a_}} : TRUE

(* a * 2^n *)
BShl(a_, n_) ==
    CHOOSE out_ \in {(
        BShlLimbs(BMulSmall(a, 2^(n % LimbBits)), n \div LimbBits)
        ) : a \in {a_}, n \in {n_}} : TRUE
(* a \div 2^n *)
BDropLimbs(a_, n_) ==
    CHOOSE out_ \in {(
        IF n >= Len(a) THEN <<>> ELSE SubSeq(a, n + 1, Len(a))
        ) : a \in {a_}, n \in {n_}} : TRUE
BShr(a_, n_) ==
    CHOOSE out_ \in {(
        BDivSmall(BDropLimbs(a, n \div LimbBits), 2^(n % LimbBits)).q
        ) : a \in {a_}, n \in {n_}} : TRUE
(* bit n of a, counted from 0 *)
BBit(a_, n_) ==
    CHOOSE out_ \in {(
        (BLimb(a, n \div LimbBits + 1) \div 2^(n % LimbBits)) % 2
        ) : a \in {a_}, n \in {n_}} : TRUE
(* a % 2^n = 0 *)
BLowZero(a_, n_) ==
    CHOOSE out_ \in {(
        /\ \A i \in 1..(n \div LimbBits) : BLimb(a, i) = 0
        /\ BLimb(a, n \div LimbBits + 1) % 2^(n % LimbBits) = 0
        ) : a \in {a_}, n \in {n_}} : TRUE
BIsOdd(a_) ==
    CHOOSE out_ \in {(
        a # <<>> /\ a[1] % 2 = 1
        ) : a \in {a_}} : TRUE

(* number of low zero bits of a # 0 *)
RECURSIVE NatTz(_)
NatTz(n) == IF n % 2 = 1 THEN 0 ELSE 1 + NatTz(n \div 2)
BTzAt(a_, i_) ==
    CHOOSE out_ \in {(
        LimbBits * (i - 1) + NatTz(a[i])
        ) : a \in {a_}, i \in {i_}} : TRUE
BTz(a_) ==
    CHOOSE out_ \in {(
        BTzAt(a, MinOf(BNonZero(a)))
        ) : a \in {a_}} : TRUE

(* quotient and remainder of a by b # 0, bit by bit from the high bit of a *)
BDivStep(r_, b_, q_) ==
    CHOOSE out_ \in {(
        IF BCmp(r, b) >= 0 THEN [q |-> BMulAdd(q, 2, 1), r |-> BSub(r, b)]
        ELSE [q |-> BMulSmall(q, 2), r |-> r]
        ) : r \in {r_}, b \in {b_}, q \in {q_}} : TRUE
BDivWide(s_) ==
    CHOOSE out_ \in {(
        [q |-> s.q, r |-> BOfNat(s.r)]
        ) : s \in {s_}} : TRUE
RECURSIVE BDivLoop(_, _, _, _, _)
BDivLoop(a_, b_, s_, lo_, hi_) ==
    CHOOSE out_ \in {(
        IF lo > hi THEN s
        ELSE IF lo = hi THEN BDivStep(BMulAdd(s.r, 2, BBit(a, BBits(a) - lo)), b, s.q)
        ELSE BDivLoop(a, b, BDivLoop(a, b, s, lo, Mid(lo, hi)), Mid(lo, hi) + 1, hi)
        ) : a \in {a_}, b \in {b_}, s \in {s_}, lo \in {lo_}, hi \in {hi_}} : TRUE
BDivMod(a_, b_) ==
    CHOOSE out_ \in {(
        IF Len(b) = 1 THEN BDivWide(BDivSmall(a, b[1]))
        ELSE BDivLoop(a, b, [q |-> <<>>, r |-> <<>>], 1, BBits(a))
        ) : a \in {a_}, b \in {b_}} : TRUE

(* k^n for 0 < k < Limb *)
RECURSIVE BPowLoop(_, _, _, _)
BPowLoop(k_, s_, lo_, hi_) ==
    CHOOSE out_ \in {(
        IF lo > hi THEN s
        ELSE IF lo = hi THEN BMulSmall(s, k)
        ELSE BPowLoop(k, BPowLoop(k, s, lo, Mid(lo, hi)), Mid(lo, hi) + 1, hi)
        ) : k \in {k_}, s \in {s_}, lo \in {lo_}, hi \in {hi_}} : TRUE
BPow(k_, n_) ==
    CHOOSE out_ \in {(
        BPowLoop(k, <<1>>, 1, n)
        ) : k \in {k_}, n \in {n_}} : TRUE

(* the largest s with s * s <= a, bit by bit from the high bit *)
BSqrtStep(a_, s_, t_) ==
    CHOOSE out_ \in {(
        IF BCmp(BMul(t, t), a) <= 0 THEN t ELSE s
        ) : a \in {a_}, s \in {s_}, t \in {t_}} : TRUE
RECURSIVE BSqrtLoop(_, _, _, _)
BSqrtLoop(a_, s_, lo_, hi_) ==
    CHOOSE out_ \in {(
        IF lo > hi THEN s
        ELSE IF lo = hi THEN BSqrtStep(a, s, BAdd(s, BShl(<<1>>, BBits(a) \div 2 + 1 - lo)))
        ELSE BSqrtLoop(a, BSqrtLoop(a, s, lo, Mid(lo, hi)), Mid(lo, hi) + 1, hi)
        ) : a \in {a_}, s \in {s_}, lo \in {lo_}, hi \in {hi_}} : TRUE
BSqrt(a_) ==
    CHOOSE out_ \in {(
        BSqrtLoop(a, <<>>, 1, BBits(a) \div 2 + 1)
        ) : a \in {a_}} : TRUE

----------------------------------------------------------------------------
(***************************************************************************)
(* float64.  A value is [cls, neg, mag, exp]: cls "fin" is                 *)
(* (-1)^neg * mag * 2^exp with mag an odd natural (or <<>> with exp 0 for  *)
(* the two zeros), cls "inf" the two infinities and cls "nan" the NaN, so  *)
(* that two values are equal as records exactly when they are the same     *)
(* float64 (the payload of a NaN is not observable in the program).        *)
(***************************************************************************)
(* 52 stored bits and the implied one; exponents of finite values *)
MantBits == 52 + 1
MinExp == -1022 - 52
MaxExp == 1023 + 1

FZero(neg_) ==
    CHOOSE out_ \in {(
        [cls |-> "fin", neg |-> neg, mag |-> <<>>, exp |-> 0]
        ) : neg \in {neg_}} : TRUE
FInf(neg_) ==
    CHOOSE out_ \in {(
        [cls |-> "inf", neg |-> neg, mag |-> <<>>, exp |-> 0]
        ) : neg \in {neg_}} : TRUE
FNaN == [cls |-> "nan", neg |-> FALSE, mag |-> <<>>, exp |-> 0]
FIsNaN(a_) ==
    CHOOSE out_ \in {(
        a.cls = "nan"
        ) : a \in {a_}} : TRUE
FIsInf(a_) ==
    CHOOSE out_ \in {(
        a.cls = "inf"
        ) : a \in {a_}} : TRUE
FIsFin(a_) ==
    CHOOSE out_ \in {(
        a.cls = "fin"
        ) : a \in {a_}} : TRUE
FIsZero(a_) ==
    CHOOSE out_ \in {(
        a.cls = "fin" /\ a.mag = <<>>
        ) : a \in {a_}} : TRUE

(* mag * 2^exp exactly, for a magnitude that fits: the low zero bits go to exp *)
FOdd(neg_, mag_, exp_, tz_) ==
    CHOOSE out_ \in {(
        [cls |-> "fin", neg |-> neg, mag |-> BShr(mag, tz), exp |-> exp + tz]
        ) : neg \in {neg_}, mag \in {mag_}, exp \in {exp_}, tz \in {tz_}} : TRUE
FPack(neg_, mag_, exp_) ==
    CHOOSE out_ \in {(
        IF mag = <<>> THEN FZero(neg)
        ELSE IF BBits(mag) + exp > MaxExp THEN FInf(neg)
        ELSE FOdd(neg, mag, exp, BTz(mag))
        ) : neg \in {neg_}, mag \in {mag_}, exp \in {exp_}} : TRUE

(* the float64 nearest to (mag + d) * 2^exp, where 0 <= d < 1 and d > 0 iff *)
(* sticky: the low `drop` bits are cut and the rest rounded to nearest, ties *)
(* to even                                                                  *)
FRoundUp(mag_, drop_, sticky_) ==
    CHOOSE out_ \in {(
        /\ BBit(mag, drop - 1) = 1
        /\ (sticky \/ ~BLowZero(mag, drop - 1) \/ BBit(mag, drop) = 1)
        ) : mag \in {mag_}, drop \in {drop_}, sticky \in {sticky_}} : TRUE
FCut(neg_, mag_, exp_, drop_, sticky_) ==
    CHOOSE out_ \in {(
        FPack(neg,
              IF FRoundUp(mag, drop, sticky) THEN BAdd(BShr(mag, drop), <<1>>) ELSE BShr(mag, drop),
              exp + drop)
        ) : neg \in {neg_}, mag \in {mag_}, exp \in {exp_}, drop \in {drop_}, sticky \in {sticky_}} : TRUE
FDrop(mag_, exp_) ==
    CHOOSE out_ \in {(
        IF BBits(mag) - MantBits > MinExp - exp THEN BBits(mag) - MantBits ELSE MinExp - exp
        ) : mag \in {mag_}, exp \in {exp_}} : TRUE
FRoundAt(neg_, mag_, exp_, sticky_, drop_) ==
    CHOOSE out_ \in {(
        IF drop <= 0 THEN FPack(neg, mag, exp)
        ELSE IF drop > BBits(mag) + 1 THEN FZero(neg)
        ELSE FCut(neg, mag, exp, drop, sticky)
        ) : neg \in {neg_}, mag \in {mag_}, exp \in {exp_}, sticky \in {sticky_}, drop \in {drop_}} : TRUE
FRound(neg_, mag_, exp_, sticky_) ==
    CHOOSE out_ \in {(
        FRoundAt(neg, mag, exp, sticky, FDrop(mag, exp))
        ) : neg \in {neg_}, mag \in {mag_}, exp \in {exp_}, sticky \in {sticky_}} : TRUE

(* the 53-bit (or, below 2^-1022, shorter) mantissa of a finite a # 0 and its exponent *)
FMantExp(a_) ==
    CHOOSE out_ \in {(
        IF a.exp - (MantBits - BBits(a.mag)) >= MinExp THEN a.exp - (MantBits - BBits(a.mag))
        ELSE MinExp
        ) : a \in {a_}} : TRUE
FMant(a_) ==
    CHOOSE out_ \in {(
        BShl(a.mag, a.exp - FMantExp(a))
        ) : a \in {a_}} : TRUE

(* a.mag * 2^(a.exp - e) for e <= a.exp *)
FAlign(a_, e_) ==
    CHOOSE out_ \in {(
        BShl(a.mag, a.exp - e)
        ) : a \in {a_}, e \in {e_}} : TRUE
FMinExp(a_, b_) ==
    CHOOSE out_ \in {(
        IF a.mag = <<>> THEN b.exp ELSE IF b.mag = <<>> THEN a.exp
        ELSE IF a.exp < b.exp THEN a.exp ELSE b.exp
        ) : a \in {a_}, b \in {b_}} : TRUE
(* -1, 0, 1 as |a| < |b|, |a| = |b|, |a| > |b| for finite a, b *)
FCmpMagAt(a_, b_, e_) ==
    CHOOSE out_ \in {(
        BCmp(FAlign(a, e), FAlign(b, e))
        ) : a \in {a_}, b \in {b_}, e \in {e_}} : TRUE
FCmpMag(a_, b_) ==
    CHOOSE out_ \in {(
        IF a.mag = <<>> \/ b.mag = <<>> THEN BCmp(a.mag, b.mag)
        ELSE IF BBits(a.mag) + a.exp < BBits(b.mag) + b.exp THEN -1
        ELSE IF BBits(a.mag) + a.exp > BBits(b.mag) + b.exp THEN 1
        ELSE FCmpMagAt(a, b, FMinExp(a, b))
        ) : a \in {a_}, b \in {b_}} : TRUE

(* a == b and a < b of Go: false with a NaN, and the two zeros are equal *)
FEq(a_, b_) ==
    CHOOSE out_ \in {(
        /\ ~FIsNaN(a) /\ ~FIsNaN(b)
        /\ \/ a = b
           \/ FIsZero(a) /\ FIsZero(b)
        ) : a \in {a_}, b \in {b_}} : TRUE
FLessFin(a_, b_) ==
    CHOOSE out_ \in {(
        IF a.neg # b.neg THEN a.neg /\ ~(FIsZero(a) /\ FIsZero(b))
        ELSE IF a.neg THEN FCmpMag(a, b) > 0 ELSE FCmpMag(a, b) < 0
        ) : a \in {a_}, b \in {b_}} : TRUE
FLess(a_, b_) ==
    CHOOSE out_ \in {(
        /\ ~FIsNaN(a) /\ ~FIsNaN(b) /\ a # b
        /\ IF FIsInf(a) THEN a.neg
           ELSE IF FIsInf(b) THEN ~b.neg
           ELSE FLessFin(a, b)
        ) : a \in {a_}, b \in {b_}} : TRUE

FNeg(a_) ==
    CHOOSE out_ \in {(
        IF FIsNaN(a) THEN a ELSE [a EXCEPT !.neg = ~a.neg]
        ) : a \in {a_}} : TRUE
FAbs(a_) ==
    CHOOSE out_ \in {(
        [a EXCEPT !.neg = FALSE]
        ) : a \in {a_}} : TRUE

(* a + b *)
FAddMag(neg_, x_, y_, e_) ==
    CHOOSE out_ \in {(
        FRound(neg, BAdd(x, y), e, FALSE)
        ) : neg \in {neg_}, x \in {x_}, y \in {y_}, e \in {e_}} : TRUE
FSubMag(neg_, x_, y_, e_, c_) ==
    CHOOSE out_ \in {(
        IF c = 0 THEN FZero(FALSE)
        ELSE IF c > 0 THEN FRound(neg, BSub(x, y), e, FALSE)
        ELSE FRound(~neg, BSub(y, x), e, FALSE)
        ) : neg \in {neg_}, x \in {x_}, y \in {y_}, e \in {e_}, c \in {c_}} : TRUE
FAddAt(a_, b_, x_, y_, e_) ==
    CHOOSE out_ \in {(
        IF a.neg = b.neg THEN FAddMag(a.neg, x, y, e) ELSE FSubMag(a.neg, x, y, e, BCmp(x, y))
        ) : a \in {a_}, b \in {b_}, x \in {x_}, y \in {y_}, e \in {e_}} : TRUE
FAddFin(a_, b_, e_) ==
    CHOOSE out_ \in {(
        FAddAt(a, b, FAlign(a, e), FAlign(b, e), e)
        ) : a \in {a_}, b \in {b_}, e \in {e_}} : TRUE
FAdd(a_, b_) ==
    CHOOSE out_ \in {(
        IF FIsNaN(a) \/ FIsNaN(b) THEN FNaN
        ELSE IF FIsInf(a) THEN (IF FIsInf(b) /\ a.neg # b.neg THEN FNaN ELSE a)
        ELSE IF FIsInf(b) THEN b
        ELSE IF FIsZero(a) /\ FIsZero(b) THEN FZero(a.neg /\ b.neg)
        ELSE FAddFin(a, b, FMinExp(a, b))
        ) : a \in {a_}, b \in {b_}} : TRUE
FSub(a_, b_) ==
    CHOOSE out_ \in {(
        FAdd(a, FNeg(b))
        ) : a \in {a_}, b \in {b_}} : TRUE

(* a * b *)
FMul(a_, b_) ==
    CHOOSE out_ \in {(
        IF FIsNaN(a) \/ FIsNaN(b) THEN FNaN
        ELSE IF FIsInf(a) \/ FIsInf(b)
             THEN (IF FIsZero(a) \/ FIsZero(b) THEN FNaN ELSE FInf(a.neg # b.neg))
        ELSE FRound(a.neg # b.neg, BMul(a.mag, b.mag), a.exp + b.exp, FALSE)
        ) : a \in {a_}, b \in {b_}} : TRUE

(* a / b: the quotient of the magnitudes to 55 bits or more, and whether a  *)
(* remainder is left                                                        *)
FDivShift(a_, b_) ==
    CHOOSE out_ \in {(
        IF MantBits + 2 + BBits(b.mag) - BBits(a.mag) > 0
        THEN MantBits + 2 + BBits(b.mag) - BBits(a.mag) ELSE 0
        ) : a \in {a_}, b \in {b_}} : TRUE
FDivQuot(neg_, qr_, e_) ==
    CHOOSE out_ \in {(
        FRound(neg, qr.q, e, qr.r # <<>>)
        ) : neg \in {neg_}, qr \in {qr_}, e \in {e_}} : TRUE
FDivAt(a_, b_, k_) ==
    CHOOSE out_ \in {(
        FDivQuot(a.neg # b.neg, BDivMod(BShl(a.mag, k), b.mag), a.exp - b.exp - k)
        ) : a \in {a_}, b \in {b_}, k \in {k_}} : TRUE
FDiv(a_, b_) ==
    CHOOSE out_ \in {(
        IF FIsNaN(a) \/ FIsNaN(b) THEN FNaN
        ELSE IF FIsInf(a) THEN (IF FIsInf(b) THEN FNaN ELSE FInf(a.neg # b.neg))
        ELSE IF FIsInf(b) THEN FZero(a.neg # b.neg)
        ELSE IF FIsZero(b) THEN (IF FIsZero(a) THEN FNaN ELSE FInf(a.neg # b.neg))
        ELSE IF FIsZero(a) THEN FZero(a.neg # b.neg)
        ELSE IF b.mag = <<1>> THEN FRound(a.neg # b.neg, a.mag, a.exp - b.exp, FALSE)
        ELSE FDivAt(a, b, FDivShift(a, b))
        ) : a \in {a_}, b \in {b_}} : TRUE

(* the integer part of |a| (a natural) and whether a has a fraction, a finite *)
FIntMag(a_) ==
    CHOOSE out_ \in {(
        IF a.exp >= 0 THEN BShl(a.mag, a.exp) ELSE BShr(a.mag, -a.exp)
        ) : a \in {a_}} : TRUE
FHasFrac(a_) ==
    CHOOSE out_ \in {(
        a.exp < 0
        ) : a \in {a_}} : TRUE
(* math.Trunc, math.Floor, math.Modf(...) frac *)
FTruncF(a_) ==
    CHOOSE out_ \in {(
        IF ~FIsFin(a) \/ a.exp >= 0 THEN a ELSE FPack(a.neg, FIntMag(a), 0)
        ) : a \in {a_}} : TRUE
FFloor(a_) ==
    CHOOSE out_ \in {(
        IF ~FIsFin(a) \/ a.exp >= 0 THEN a
        ELSE IF a.neg THEN FPack(TRUE, BAdd(FIntMag(a), <<1>>), 0)
        ELSE FPack(FALSE, FIntMag(a), 0)
        ) : a \in {a_}} : TRUE

(* math.Sqrt *)
FSqrtShift(a_) ==
    CHOOSE out_ \in {(
        IF (a.exp + 2 * MantBits + 4) % 2 = 0 THEN 2 * MantBits + 4 ELSE 2 * MantBits + 5
        ) : a \in {a_}} : TRUE
FSqrtRoot(n_, s_, e_) ==
    CHOOSE out_ \in {(
        FRound(FALSE, s, e, BMul(s, s) # n)
        ) : n \in {n_}, s \in {s_}, e \in {e_}} : TRUE
FSqrtAt(n_, e_) ==
    CHOOSE out_ \in {(
        FSqrtRoot(n, BSqrt(n), e)
        ) : n \in {n_}, e \in {e_}} : TRUE
FSqrtFin(a_, k_) ==
    CHOOSE out_ \in {(
        FSqrtAt(BShl(a.mag, k), (a.exp - k) \div 2)
        ) : a \in {a_}, k \in {k_}} : TRUE
FSqrt(a_) ==
    CHOOSE out_ \in {(
        IF FIsNaN(a) \/ FIsZero(a) THEN a
        ELSE IF a.neg THEN FNaN
        ELSE IF FIsInf(a) THEN a
        ELSE FSqrtFin(a, FSqrtShift(a))
        ) : a \in {a_}} : TRUE

(* math.Frexp: a = frac * 2^exp with 1/2 <= |frac| < 1; math.Ldexp: a * 2^k *)
FrexpFrac(a_) ==
    CHOOSE out_ \in {(
        IF ~FIsFin(a) \/ FIsZero(a) THEN a ELSE [a EXCEPT !.exp = -BBits(a.mag)]
        ) : a \in {a_}} : TRUE
FrexpExp(a_) ==
    CHOOSE out_ \in {(
        IF ~FIsFin(a) \/ FIsZero(a) THEN 0 ELSE a.exp + BBits(a.mag)
        ) : a \in {a_}} : TRUE
Ldexp(a_, k_) ==
    CHOOSE out_ \in {(
        IF ~FIsFin(a) \/ FIsZero(a) THEN a ELSE FRound(a.neg, a.mag, a.exp + k, FALSE)
        ) : a \in {a_}, k \in {k_}} : TRUE

----------------------------------------------------------------------------
(***************************************************************************)
(* int64.  A value is [neg, mag] with mag a natural of at most 63 bits (or *)
(* 2^63 when neg); zero is [neg |-> FALSE, mag |-> <<>>].                  *)
(***************************************************************************)
IMake(neg_, mag_) ==
    CHOOSE out_ \in {(
        [neg |-> neg /\ mag # <<>>, mag |-> mag]
        ) : neg \in {neg_}, mag \in {mag_}} : TRUE
(* the int64 of a TLC integer, and back for a value below 2^31 *)
I64(n_) ==
    CHOOSE out_ \in {(
        IMake(n < 0, BOfNat(Abs(n)))
        ) : n \in {n_}} : TRUE
IVal(i_) ==
    CHOOSE out_ \in {(
        IF i.neg THEN -BToNat(i.mag) ELSE BToNat(i.mag)
        ) : i \in {i_}} : TRUE
TwoTo63 == BShl(<<1>>, 63)
MinInt64 == IMake(TRUE, TwoTo63)
MaxInt64 == IMake(FALSE, BSub(TwoTo63, <<1>>))
IInRange(neg_, mag_) ==
    CHOOSE out_ \in {(
        BCmp(mag, TwoTo63) < 0 \/ (neg /\ mag = TwoTo63)
        ) : neg \in {neg_}, mag \in {mag_}} : TRUE
ILess(a_, b_) ==
    CHOOSE out_ \in {(
        IF a.neg # b.neg THEN a.neg
        ELSE IF a.neg THEN BCmp(a.mag, b.mag) > 0 ELSE BCmp(a.mag, b.mag) < 0
        ) : a \in {a_}, b \in {b_}} : TRUE

(* the natural written by the decimal digits bs *)
RECURSIVE BOfDigitsLoop(_, _, _, _)
BOfDigitsLoop(bs_, s_, lo_, hi_) ==
    CHOOSE out_ \in {(
        IF lo > hi THEN s
        ELSE IF lo = hi THEN BMulAdd(s, 10, DigitVal(bs[lo]))
        ELSE BOfDigitsLoop(bs, BOfDigitsLoop(bs, s, lo, Mid(lo, hi)), Mid(lo, hi) + 1, hi)
        ) : bs \in {bs_}, s \in {s_}, lo \in {lo_}, hi \in {hi_}} : TRUE
BOfDigits(bs_) ==
    CHOOSE out_ \in {(
        BOfDigitsLoop(bs, <<>>, 1, Len(bs))
        ) : bs \in {bs_}} : TRUE
(* the decimal digits of a natural; "0" for zero *)
(* (a natural of n bits has at most n \div 3 + 1 digits)                 *)
BDigitsPush(qr_, ds_) ==
    CHOOSE out_ \in {(
        [q |-> qr.q, ds |-> <<Digits[qr.r + 1]>> \o ds]
        ) : qr \in {qr_}, ds \in {ds_}} : TRUE
BDigitsStep(s_, i_) ==
    CHOOSE out_ \in {(
        IF s.q = <<>> /\ i > 1 THEN s ELSE BDigitsPush(BDivSmall(s.q, 10), s.ds)
        ) : s \in {s_}, i \in {i_}} : TRUE
RECURSIVE BDigitsLoop(_, _, _)
BDigitsLoop(s_, lo_, hi_) ==
    CHOOSE out_ \in {(
        IF lo > hi THEN s
        ELSE IF lo = hi THEN BDigitsStep(s, lo)
        ELSE BDigitsLoop(BDigitsLoop(s, lo, Mid(lo, hi)), Mid(lo, hi) + 1, hi)
        ) : s \in {s_}, lo \in {lo_}, hi \in {hi_}} : TRUE
BDigits(a_) ==
    CHOOSE out_ \in {(
        BDigitsLoop([q |-> a, ds |-> <<>>], 1, BBits(a) \div 3 + 1).ds
        ) : a \in {a_}} : TRUE

(* float64(i) *)
FInt(i_) ==
    CHOOSE out_ \in {(
        FRound(i.neg, i.mag, 0, FALSE)
        ) : i \in {i_}} : TRUE

(* int64(f): the fraction is discarded.  When the value does not fit (NaN, *)
(* an infinity, beyond the range) the result depends on the build: amd64   *)
(* gives the least int64, arm64 and wasm saturate with 0 for NaN, riscv64  *)
(* saturates with the greatest int64 for NaN.                              *)
FFits(a_) ==
    CHOOSE out_ \in {(
        FIsFin(a) /\ IInRange(a.neg, FIntMag(a))
        ) : a \in {a_}} : TRUE
FTruncSet(a_) ==
    CHOOSE out_ \in {(
        IF FFits(a) THEN {IMake(a.neg, FIntMag(a))}
        ELSE IF FIsNaN(a) THEN {MinInt64, I64(0), MaxInt64}
        ELSE IF a.neg THEN {MinInt64}
        ELSE {MinInt64, MaxInt64}
        ) : a \in {a_}} : TRUE
(* int64(f) for a value that fits *)
FTrunc(a_) ==
    CHOOSE out_ \in {(
        IMake(a.neg, FIntMag(a))
        ) : a \in {a_}} : TRUE

(* variant: the remainder of the floor division, with the sign of b *)
floored_rem(bneg_, bmag_, same_, m_) ==
    CHOOSE out_ \in {(
        IF m = <<>> THEN IMake(FALSE, <<>>)
        ELSE IF same THEN IMake(bneg, m)
        ELSE IMake(bneg, BSub(bmag, m))
        ) : bneg \in {bneg_}, bmag \in {bmag_}, same \in {same_}, m \in {m_}} : TRUE
GoRem_floored(a_, b_) ==
    CHOOSE out_ \in {(
        floored_rem(b.neg, b.mag, a.neg = b.neg, BDivMod(a.mag, b.mag).r)
        ) : a \in {a_}, b \in {b_}} : TRUE
(* a % b of int64 for b # 0: the remainder of the truncated quotient, with *)
(* the sign of a (the least int64 % -1 is 0)                               *)
GoRem(a_, b_) ==
    CHOOSE out_ \in {(
        IMake(a.neg, BDivMod(a.mag, b.mag).r)
        ) : a \in {a_}, b \in {b_}} : TRUE

----------------------------------------------------------------------------
(***************************************************************************)
(* strconv.FormatFloat(f, 'f', -1, 64): the shortest decimal digits that   *)
(* read back as f (of several, the closest to f), written without an       *)
(* exponent.                                                               *)
(***************************************************************************)
(* computeBounds: the halfway points to the two neighbours of mant * 2^exp *)
(* and the value itself, as naturals times 2^e2                            *)
cb_border(a_) ==
    CHOOSE out_ \in {(
        a.mag = <<1>> /\ FMantExp(a) # MinExp
        ) : a \in {a_}} : TRUE
cb_e2(a_) ==
    CHOOSE out_ \in {(
        IF cb_border(a) THEN FMantExp(a) - 2 ELSE FMantExp(a) - 1
        ) : a \in {a_}} : TRUE
cb_central(a_) ==
    CHOOSE out_ \in {(
        BMulSmall(FMant(a), IF cb_border(a) THEN 4 ELSE 2)
        ) : a \in {a_}} : TRUE
cb_lower(a_) ==
    CHOOSE out_ \in {(
        BSub(cb_central(a), <<1>>)
        ) : a \in {a_}} : TRUE
cb_upper(a_) ==
    CHOOSE out_ \in {(
        BAdd(cb_central(a), IF cb_border(a) THEN <<2>> ELSE <<1>>)
        ) : a \in {a_}} : TRUE
(* n * 2^e2 as a natural times 10^min(e2, 0) *)
sd_scale(n_, e2_) ==
    CHOOSE out_ \in {(
        IF e2 >= 0 THEN BShl(n, e2) ELSE BMul(n, BPow(5, -e2))
        ) : n \in {n_}, e2 \in {e2_}} : TRUE
(* the bounds are themselves digits that read back as f when mant is even *)
sd_start(a_, even_) ==
    CHOOSE out_ \in {(
        [l |-> IF even THEN sd_scale(cb_lower(a), cb_e2(a))
               ELSE BAdd(sd_scale(cb_lower(a), cb_e2(a)), <<1>>),
         c |-> sd_scale(cb_central(a), cb_e2(a)),
         u |-> IF even THEN sd_scale(cb_upper(a), cb_e2(a))
               ELSE BSub(sd_scale(cb_upper(a), cb_e2(a)), <<1>>),
         trimmed |-> 0, cNextDigit |-> 0, c0 |-> TRUE, stop |-> FALSE]
        ) : a \in {a_}, even \in {even_}} : TRUE
(* one digit fewer, while a number with fewer digits lies between the bounds *)
sd_cut(s_, l_, c_, u_) ==
    CHOOSE out_ \in {(
        IF BCmp(l, u) > 0 THEN [s EXCEPT !.stop = TRUE]
        ELSE IF l = BAdd(c.q, <<1>>) /\ BCmp(c.q, u) < 0
        THEN [s EXCEPT !.l = l, !.c = l, !.u = u, !.trimmed = @ + 1,
                       !.c0 = @ /\ s.cNextDigit = 0, !.cNextDigit = 0]
        ELSE [s EXCEPT !.l = l, !.c = c.q, !.u = u, !.trimmed = @ + 1,
                       !.c0 = @ /\ s.cNextDigit = 0, !.cNextDigit = c.r]
        ) : s \in {s_}, l \in {l_}, c \in {c_}, u \in {u_}} : TRUE
sd_trim(s_) ==
    CHOOSE out_ \in {(
        IF s.stop THEN s
        ELSE sd_cut(s, BDivSmall(BAdd(s.l, <<9>>), 10).q, BDivSmall(s.c, 10), BDivSmall(s.u, 10).q)
        ) : s \in {s_}} : TRUE
sd_cup(s_) ==
    CHOOSE out_ \in {(
        /\ s.trimmed > 0
        /\ \/ s.cNextDigit > 5
           \/ s.cNextDigit = 5 /\ ~s.c0
           \/ s.cNextDigit = 5 /\ s.c0 /\ BIsOdd(s.c)
        ) : s \in {s_}} : TRUE
sd_round(s_) ==
    CHOOSE out_ \in {(
        IF BCmp(s.c, s.u) < 0 /\ sd_cup(s) THEN BAdd(s.c, <<1>>) ELSE s.c
        ) : s \in {s_}} : TRUE
RECURSIVE sd_trims(_, _, _)
sd_trims(s_, lo_, hi_) ==
    CHOOSE out_ \in {(
        IF lo > hi \/ s.stop THEN s
        ELSE IF lo = hi THEN sd_trim(s)
        ELSE sd_trims(sd_trims(s, lo, Mid(lo, hi)), Mid(lo, hi) + 1, hi)
        ) : s \in {s_}, lo \in {lo_}, hi \in {hi_}} : TRUE
sd_loop(s_) ==
    CHOOSE out_ \in {(
        sd_trims(s, 1, BBits(s.u) \div 3 + 1)
        ) : s \in {s_}} : TRUE
(* the digits d and the position dp of the point: f = 0.d * 10^dp *)
sd_digits(ds_, trimmed_, e2_) ==
    CHOOSE out_ \in {(
        [d |-> ds, dp |-> Len(ds) + trimmed + (IF e2 < 0 THEN e2 ELSE 0)]
        ) : ds \in {ds_}, trimmed \in {trimmed_}, e2 \in {e2_}} : TRUE
sd_end(s_, e2_) ==
    CHOOSE out_ \in {(
        sd_digits(BDigits(sd_round(s)), s.trimmed, e2)
        ) : s \in {s_}, e2 \in {e2_}} : TRUE
ShortestDigits(a_) ==
    CHOOSE out_ \in {(
        sd_end(sd_loop(sd_start(a, ~BIsOdd(FMant(a)))), cb_e2(a))
        ) : a \in {a_}} : TRUE

(* fmtF: the integer digits, padded with zeros, then the fraction digits *)
Zeros(n_) ==
    CHOOSE out_ \in {(
        [i \in 1..n |-> "0"]
        ) : n \in {n_}} : TRUE
fmtF_int(d_, dp_) ==
    CHOOSE out_ \in {(
        IF dp <= 0 THEN <<"0">>
        ELSE IF Len(d) >= dp THEN SubSeq(d, 1, dp)
        ELSE d \o Zeros(dp - Len(d))
        ) : d \in {d_}, dp \in {dp_}} : TRUE
fmtF_frac(d_, dp_) ==
    CHOOSE out_ \in {(
        IF Len(d) <= dp THEN <<>>
        ELSE IF dp >= 0 THEN <<".">> \o SubSeq(d, dp + 1, Len(d))
        ELSE <<".">> \o Zeros(-dp) \o d
        ) : d \in {d_}, dp \in {dp_}} : TRUE
fmtF(neg_, ds_) ==
    CHOOSE out_ \in {(
        (IF neg THEN <<"-">> ELSE <<>>) \o fmtF_int(ds.d, ds.dp) \o fmtF_frac(ds.d, ds.dp)
        ) : neg \in {neg_}, ds \in {ds_}} : TRUE
FormatFloat(a_) ==
    CHOOSE out_ \in {(
        IF FIsNaN(a) THEN <<"N", "a", "N">>
        ELSE IF FIsInf(a) THEN <<IF a.neg THEN "-" ELSE "+", "I", "n", "f">>
        ELSE IF FIsZero(a) THEN fmtF(a.neg, [d |-> <<>>, dp |-> 0])
        ELSE fmtF(a.neg, ShortestDigits(a))
        ) : a \in {a_}} : TRUE

----------------------------------------------------------------------------
(***************************************************************************)
(* The bits of a float64 >= 0 as a natural (math.Float64bits), which also  *)
(* numbers the floats from 0 upwards, and back.                            *)
(***************************************************************************)
FracBits == MantBits - 1
InfBits == BShl(BOfNat(2047), FracBits)
FBits(a_) ==
    CHOOSE out_ \in {(
        IF FIsInf(a) THEN InfBits
        ELSE IF FIsZero(a) THEN <<>>
        ELSE BAdd(BShl(BOfNat(FMantExp(a) - MinExp), FracBits), FMant(a))
        ) : a \in {a_}} : TRUE
FOfFields(e_, frac_) ==
    CHOOSE out_ \in {(
        IF e = 0 THEN FPack(FALSE, frac, MinExp)
        ELSE FPack(FALSE, BAdd(frac, BShl(<<1>>, FracBits)), MinExp + e - 1)
        ) : e \in {e_}, frac \in {frac_}} : TRUE
FOfBits(b_) ==
    CHOOSE out_ \in {(
        IF BCmp(b, InfBits) >= 0 THEN FInf(FALSE)
        ELSE FOfFields(BToNat(BShr(b, FracBits)), BSub(b, BShl(BShr(b, FracBits), FracBits)))
        ) : b \in {b_}} : TRUE
(* the float j places above a >= 0 (below for j < 0), stopping at 0 and +Inf *)
FStep(a_, j_) ==
    CHOOSE out_ \in {(
        IF j >= 0 THEN FOfBits(BAdd(FBits(a), BOfNat(j)))
        ELSE IF BCmp(FBits(a), BOfNat(-j)) <= 0 THEN FZero(FALSE)
        ELSE FOfBits(BSub(FBits(a), BOfNat(-j)))
        ) : a \in {a_}, j \in {j_}} : TRUE
(* the normal float64 with the bits w1 w2 w3 w4, four 16-bit words from the *)
(* high one: a sign bit, 11 bits of exponent and 52 of mantissa             *)
WordBits == 2^4
SignWord == 2^(WordBits - 1)
WordsNat(w1_, w2_, w3_, w4_) ==
    CHOOSE out_ \in {(
        BAdd(BAdd(BShl(BOfNat(w1), 3 * WordBits), BShl(BOfNat(w2), 2 * WordBits)),
             BAdd(BShl(BOfNat(w3), WordBits), BOfNat(w4)))
        ) : w1 \in {w1_}, w2 \in {w2_}, w3 \in {w3_}, w4 \in {w4_}} : TRUE
FWords(w1_, w2_, w3_, w4_) ==
    CHOOSE out_ \in {(
        FPack(w1 >= SignWord, WordsNat((w1 % WordBits) + WordBits, w2, w3, w4),
              ((w1 % SignWord) \div WordBits) + MinExp - 1)
        ) : w1 \in {w1_}, w2 \in {w2_}, w3 \in {w3_}, w4 \in {w4_}} : TRUE

(***************************************************************************)
(* math.Log and math.Exp as the portable Go code computes them.  Both are  *)
(* straight-line code on float64 variables; FRun executes such code, a      *)
(* statement <<d, a, op, b>> being d = a op b on the record r of the        *)
(* variables and constants.                                                 *)
(***************************************************************************)
FPow2(k_) ==
    CHOOSE out_ \in {(
        [cls |-> "fin", neg |-> FALSE, mag |-> <<1>>, exp |-> k]
        ) : k \in {k_}} : TRUE
FOne == FPow2(0)
FTwo == FPow2(1)
FHalf == FPow2(-1)
FStmtVal(op_, a_, b_) ==
    CHOOSE out_ \in {(
        CASE op = "+" -> FAdd(a, b)
          [] op = "-" -> FSub(a, b)
          [] op = "*" -> FMul(a, b)
          [] op = "/" -> FDiv(a, b)
        ) : op \in {op_}, a \in {a_}, b \in {b_}} : TRUE
FStmt(r_, st_) ==
    CHOOSE out_ \in {(
        [r EXCEPT ![st[1]] = FStmtVal(st[3], r[st[2]], r[st[4]])]
        ) : r \in {r_}, st \in {st_}} : TRUE
RECURSIVE FRunLoop(_, _, _, _)
FRunLoop(stmts_, r_, lo_, hi_) ==
    CHOOSE out_ \in {(
        IF lo > hi THEN r
        ELSE IF lo = hi THEN FStmt(r, stmts[lo])
        ELSE FRunLoop(stmts, FRunLoop(stmts, r, lo, Mid(lo, hi)), Mid(lo, hi) + 1, hi)
        ) : stmts \in {stmts_}, r \in {r_}, lo \in {lo_}, hi \in {hi_}} : TRUE
FRun(r_, stmts_) ==
    CHOOSE out_ \in {(
        FRunLoop(stmts, r, 1, Len(stmts))
        ) : r \in {r_}, stmts \in {stmts_}} : TRUE

Ln2Hi == FWords(\H3fe6, \H2e42, \Hfee0, \H0000)
Ln2Lo == FWords(\H3dea, \H39ef, \H3579, \H3c76)
L1 == FWords(\H3fe5, \H5555, \H5555, \H5593)
L2 == FWords(\H3fd9, \H9999, \H9997, \Hfa04)
L3 == FWords(\H3fd2, \H4924, \H9422, \H9359)
L4 == FWords(\H3fcc, \H71c5, \H1d8e, \H78af)
L5 == FWords(\H3fc7, \H4664, \H96cb, \H03de)
L6 == FWords(\H3fc3, \H9a09, \Hd078, \Hc69f)
L7 == FWords(\H3fc2, \Hf112, \Hdf3e, \H5244)
HalfSqrt2 == FWords(\H3fe6, \Ha09e, \H667f, \H3bcd)

(* f1, ki := Frexp(x); if f1 < Sqrt2/2 { f1 *= 2; ki-- } *)
log_f1(f1_) ==
    CHOOSE out_ \in {(
        IF FLess(f1, HalfSqrt2) THEN FMul(f1, FTwo) ELSE f1
        ) : f1 \in {f1_}} : TRUE
log_ki(f1_, ki_) ==
    CHOOSE out_ \in {(
        IF FLess(f1, HalfSqrt2) THEN ki - 1 ELSE ki
        ) : f1 \in {f1_}, ki \in {ki_}} : TRUE
log_vars(f1_, k_) ==
    CHOOSE out_ \in {(
        [f1 |-> f1, k |-> k, one |-> FOne, two |-> FTwo, half |-> FHalf,
         L1 |-> L1, L2 |-> L2, L3 |-> L3, L4 |-> L4, L5 |-> L5, L6 |-> L6, L7 |-> L7,
         Ln2Hi |-> Ln2Hi, Ln2Lo |-> Ln2Lo,
         f |-> FNaN, s |-> FNaN, s2 |-> FNaN, s4 |-> FNaN, t1 |-> FNaN, t2 |-> FNaN,
         R |-> FNaN, hfsq |-> FNaN, u |-> FNaN, v |-> FNaN]
        ) : f1 \in {f1_}, k \in {k_}} : TRUE
log_code ==
    << <<"f", "f1", "-", "one">>,        (* f := f1 - 1 *)
       <<"s", "two", "+", "f">>,         (* s := f / (2 + f) *)
       <<"s", "f", "/", "s">>,
       <<"s2", "s", "*", "s">>,          (* s2 := s * s *)
       <<"s4", "s2", "*", "s2">>,        (* s4 := s2 * s2 *)
       <<"t1", "s4", "*", "L7">>,        (* t1 := s2 * (L1 + s4*(L3+s4*(L5+s4*L7))) *)
       <<"t1", "L5", "+", "t1">>,
       <<"t1", "s4", "*", "t1">>,
       <<"t1", "L3", "+", "t1">>,
       <<"t1", "s4", "*", "t1">>,
       <<"t1", "L1", "+", "t1">>,
       <<"t1", "s2", "*", "t1">>,
       <<"t2", "s4", "*", "L6">>,        (* t2 := s4 * (L2 + s4*(L4+s4*L6)) *)
       <<"t2", "L4", "+", "t2">>,
       <<"t2", "s4", "*", "t2">>,
       <<"t2", "L2", "+", "t2">>,
       <<"t2", "s4", "*", "t2">>,
       <<"R", "t1", "+", "t2">>,         (* R := t1 + t2 *)
       <<"hfsq", "half", "*", "f">>,     (* hfsq := 0.5 * f * f *)
       <<"hfsq", "hfsq", "*", "f">>,
       <<"u", "hfsq", "+", "R">>,        (* k*Ln2Hi - ((hfsq - (s*(hfsq+R) + k*Ln2Lo)) - f) *)
       <<"u", "s", "*", "u">>,
       <<"v", "k", "*", "Ln2Lo">>,
       <<"u", "u", "+", "v">>,
       <<"u", "hfsq", "-", "u">>,
       <<"u", "u", "-", "f">>,
       <<"v", "k", "*", "Ln2Hi">>,
       <<"u", "v", "-", "u">> >>
log_reduce(f1_, ki_) ==
    CHOOSE out_ \in {(
        FRun(log_vars(log_f1(f1), FInt(I64(log_ki(f1, ki)))), log_code).u
        ) : f1 \in {f1_}, ki \in {ki_}} : TRUE
log(x_) ==
    CHOOSE out_ \in {(
        IF FIsNaN(x) \/ x = FInf(FALSE) THEN x
        ELSE IF FLess(x, FZero(FALSE)) THEN FNaN
        ELSE IF FIsZero(x) THEN FInf(TRUE)
        ELSE log_reduce(FrexpFrac(x), FrexpExp(x))
        ) : x \in {x_}} : TRUE

Log2e == FWords(\H3ff7, \H1547, \H652b, \H82fe)
Overflow == FWords(\H4086, \H2e42, \Hfefa, \H39ef)
Underflow == FWords(\Hc087, \H4910, \Hd52d, \H3051)
P1 == FWords(\H3fc5, \H5555, \H5555, \H5555)
P2 == FWords(\Hbf66, \Hc16c, \H16be, \Hbd93)
P3 == FWords(\H3f11, \H566a, \Haf25, \Hde2c)
P4 == FWords(\Hbebb, \Hbd41, \Hc5d2, \H6bf1)
P5 == FWords(\H3e66, \H3769, \H72be, \Ha4d0)
NearZero == FPow2(-28)
exp_vars(x_, fk_) ==
    CHOOSE out_ \in {(
        [x |-> x, fk |-> fk, one |-> FOne, two |-> FTwo,
         P1 |-> P1, P2 |-> P2, P3 |-> P3, P4 |-> P4, P5 |-> P5,
         Ln2Hi |-> Ln2Hi, Ln2Lo |-> Ln2Lo,
         hi |-> FNaN, lo |-> FNaN, r |-> FNaN, t |-> FNaN, c |-> FNaN, y |-> FNaN, u |-> FNaN]
        ) : x \in {x_}, fk \in {fk_}} : TRUE
exp_code ==
    << <<"hi", "fk", "*", "Ln2Hi">>,     (* hi := x - float64(k)*Ln2Hi *)
       <<"hi", "x", "-", "hi">>,
       <<"lo", "fk", "*", "Ln2Lo">>,     (* lo := float64(k) * Ln2Lo *)
       <<"r", "hi", "-", "lo">>,         (* expmulti: r := hi - lo *)
       <<"t", "r", "*", "r">>,           (* t := r * r *)
       <<"c", "t", "*", "P5">>,          (* c := r - t*(P1+t*(P2+t*(P3+t*(P4+t*P5)))) *)
       <<"c", "P4", "+", "c">>,
       <<"c", "t", "*", "c">>,
       <<"c", "P3", "+", "c">>,
       <<"c", "t", "*", "c">>,
       <<"c", "P2", "+", "c">>,
       <<"c", "t", "*", "c">>,
       <<"c", "P1", "+", "c">>,
       <<"c", "t", "*", "c">>,
       <<"c", "r", "-", "c">>,
       <<"y", "r", "*", "c">>,           (* y := 1 - ((lo - (r*c)/(2-c)) - hi) *)
       <<"u", "two", "-", "c">>,
       <<"y", "y", "/", "u">>,
       <<"y", "lo", "-", "y">>,
       <<"y", "y", "-", "hi">>,
       <<"y", "one", "-", "y">> >>
(* k = int(Log2e*x - 0.5) for x < 0 and int(Log2e*x + 0.5) for x > 0 *)
exp_round(x_, p_) ==
    CHOOSE out_ \in {(
        IF x.neg THEN FSub(p, FHalf) ELSE FAdd(p, FHalf)
        ) : x \in {x_}, p \in {p_}} : TRUE
exp_k(x_) ==
    CHOOSE out_ \in {(
        IVal(FTrunc(exp_round(x, FMul(Log2e, x))))
        ) : x \in {x_}} : TRUE
(* return Ldexp(y, k) *)
exp_at(x_, k_) ==
    CHOOSE out_ \in {(
        Ldexp(FRun(exp_vars(x, FInt(I64(k))), exp_code).y, k)
        ) : x \in {x_}, k \in {k_}} : TRUE
exp(x_) ==
    CHOOSE out_ \in {(
        IF FIsNaN(x) \/ x = FInf(FALSE) THEN x
        ELSE IF x = FInf(TRUE) THEN FZero(FALSE)
        ELSE IF FLess(Overflow, x) THEN FInf(FALSE)
        ELSE IF FLess(x, Underflow) THEN FZero(FALSE)
        ELSE IF FLess(FNeg(NearZero), x) /\ FLess(x, NearZero) THEN FAdd(FOne, x)
        ELSE exp_at(x, exp_k(x))
        ) : x \in {x_}} : TRUE

(***************************************************************************)
(* math.Pow.  The result is a set: a power with a fractional exponent      *)
(* other than 1/2 and -1/2 goes through Exp and Log, whose last bits       *)
(* depend on the build (assembly on some architectures, fused multiply-add *)
(* on others), so every float64 within PowSlack places of the portable     *)
(* result is an outcome.  All other powers have one outcome.               *)
(***************************************************************************)
isOddInt(x_) ==
    CHOOSE out_ \in {(
        FIsFin(x) /\ x.mag # <<>> /\ x.exp = 0
        ) : x \in {x_}} : TRUE
pow_zero(x_, y_) ==
    CHOOSE out_ \in {(
        IF y.neg THEN (IF x.neg /\ isOddInt(y) THEN FInf(TRUE) ELSE FInf(FALSE))
        ELSE (IF x.neg /\ isOddInt(y) THEN x ELSE FZero(FALSE))
        ) : x \in {x_}, y \in {y_}} : TRUE
pow_huge(x_, y_) ==
    CHOOSE out_ \in {(
        IF x = FNeg(FOne) THEN FOne
        ELSE IF FLess(FAbs(x), FOne) = ~y.neg THEN FZero(FALSE)
        ELSE FInf(FALSE)
        ) : x \in {x_}, y \in {y_}} : TRUE
pow_inf(x_, y_) ==
    CHOOSE out_ \in {(
        IF x.neg THEN pow_zero(FZero(TRUE), FNeg(y))
        ELSE IF y.neg THEN FZero(FALSE) ELSE FInf(FALSE)
        ) : x \in {x_}, y \in {y_}} : TRUE
(* the loop over the bits of yi: ans = a1 * 2^ae is multiplied by x1 * 2^xe, *)
(* which is squared at each bit                                              *)
pow_square(s_, x1_) ==
    CHOOSE out_ \in {(
        IF FLess(x1, FHalf) THEN [s EXCEPT !.x1 = FAdd(x1, x1), !.xe = 2 * s.xe - 1]
        ELSE [s EXCEPT !.x1 = x1, !.xe = 2 * s.xe]
        ) : s \in {s_}, x1 \in {x1_}} : TRUE
pow_mul(s_, bit_) ==
    CHOOSE out_ \in {(
        IF bit = 1 THEN [s EXCEPT !.a1 = FMul(@, s.x1), !.ae = @ + s.xe] ELSE s
        ) : s \in {s_}, bit \in {bit_}} : TRUE
pow_bit(s_, bit_) ==
    CHOOSE out_ \in {(
        IF s.stop THEN s
        ELSE IF s.xe < -(2^12) \/ 2^12 < s.xe THEN [s EXCEPT !.ae = @ + s.xe, !.stop = TRUE]
        ELSE pow_square(pow_mul(s, bit), FMul(s.x1, s.x1))
        ) : s \in {s_}, bit \in {bit_}} : TRUE
RECURSIVE pow_bits(_, _, _, _)
pow_bits(i_, s_, lo_, hi_) ==
    CHOOSE out_ \in {(
        IF lo > hi \/ s.stop THEN s
        ELSE IF lo = hi THEN pow_bit(s, BBit(i, lo))
        ELSE pow_bits(i, pow_bits(i, s, lo, Mid(lo, hi)), Mid(lo, hi) + 1, hi)
        ) : i \in {i_}, s \in {s_}, lo \in {lo_}, hi \in {hi_}} : TRUE
pow_loop(a1_, x_, i_) ==
    CHOOSE out_ \in {(
        pow_bits(i, [a1 |-> a1, ae |-> 0, x1 |-> FrexpFrac(x), xe |-> FrexpExp(x), stop |-> FALSE],
                 0, BBits(i) - 1)
        ) : a1 \in {a1_}, x \in {x_}, i \in {i_}} : TRUE
pow_inverse(s_, y_) ==
    CHOOSE out_ \in {(
        IF y.neg THEN [s EXCEPT !.a1 = FDiv(FOne, @), !.ae = -@] ELSE s
        ) : s \in {s_}, y \in {y_}} : TRUE
pow_ldexp(s_) ==
    CHOOSE out_ \in {(
        Ldexp(s.a1, s.ae)
        ) : s \in {s_}} : TRUE
pow_end(s_, y_) ==
    CHOOSE out_ \in {(
        pow_ldexp(pow_inverse(s, y))
        ) : s \in {s_}, y \in {y_}} : TRUE
(* if yf != 0 { if yf > 0.5 { yf--; yi++ }; a1 = Exp(yf * Log(x)) } *)
pow_yf(yf_) ==
    CHOOSE out_ \in {(
        IF FLess(FHalf, yf) THEN FSub(yf, FOne) ELSE yf
        ) : yf \in {yf_}} : TRUE
pow_yi(yi_, yf_) ==
    CHOOSE out_ \in {(
        IF FLess(FHalf, yf) THEN FAdd(yi, FOne) ELSE yi
        ) : yi \in {yi_}, yf \in {yf_}} : TRUE
pow_t(x_, yf_) ==
    CHOOSE out_ \in {(
        IF FIsZero(yf) THEN yf ELSE FMul(pow_yf(yf), log(x))
        ) : x \in {x_}, yf \in {yf_}} : TRUE
pow_a1(yf_, t_) ==
    CHOOSE out_ \in {(
        IF FIsZero(yf) THEN FOne ELSE exp(t)
        ) : yf \in {yf_}, t \in {t_}} : TRUE
PowSlack(t_) ==
    CHOOSE out_ \in {(
        8 * (BToNat(FIntMag(t)) + 1) + 5
        ) : t \in {t_}} : TRUE
pow_slack(yf_, t_) ==
    CHOOSE out_ \in {(
        IF FIsZero(yf) THEN 0 ELSE PowSlack(t)
        ) : yf \in {yf_}, t \in {t_}} : TRUE
pow_near(c_, slack_) ==
    CHOOSE out_ \in {(
        IF slack = 0 THEN {c} ELSE {FStep(c, j) : j \in (-slack)..slack}
        ) : c \in {c_}, slack \in {slack_}} : TRUE
pow_at(x_, y_, yi_, yf_, t_) ==
    CHOOSE out_ \in {(
        pow_near(pow_end(pow_loop(pow_a1(yf, t), x, FIntMag(pow_yi(yi, yf))), y), pow_slack(yf, t))
        ) : x \in {x_}, y \in {y_}, yi \in {yi_}, yf \in {yf_}, t \in {t_}} : TRUE
pow_modf(x_, y_, yi_, yf_) ==
    CHOOSE out_ \in {(
        IF ~FIsZero(yf) /\ x.neg THEN {FNaN}
        ELSE IF ~FLess(yi, FInt(MinInt64)) /\ ~FLess(yi, FNeg(FInt(MinInt64))) THEN {pow_huge(x, y)}
        ELSE pow_at(x, y, yi, yf, pow_t(x, yf))
        ) : x \in {x_}, y \in {y_}, yi \in {yi_}, yf \in {yf_}} : TRUE
pow_abs(x_, y_, ay_) ==
    CHOOSE out_ \in {(
        pow_modf(x, y, FTruncF(ay), FSub(ay, FTruncF(ay)))
        ) : x \in {x_}, y \in {y_}, ay \in {ay_}} : TRUE
FPow(x_, y_) ==
    CHOOSE out_ \in {(
        IF FIsZero(y) \/ x = FOne THEN {FOne}
        ELSE IF y = FOne THEN {x}
        ELSE IF FIsNaN(x) \/ FIsNaN(y) THEN {FNaN}
        ELSE IF FIsZero(x) THEN {pow_zero(x, y)}
        ELSE IF FIsInf(y) THEN {pow_huge(x, y)}
        ELSE IF FIsInf(x) THEN {pow_inf(x, y)}
        ELSE IF y = FHalf THEN {FSqrt(x)}
        ELSE IF y = FNeg(FHalf) THEN {FDiv(FOne, FSqrt(x))}
        ELSE pow_abs(x, y, FAbs(y))
        ) : x \in {x_}, y \in {y_}} : TRUE

----------------------------------------------------------------------------
(***************************************************************************)
(* strconv.ParseInt(s, 10, 64): an optional sign, then one or more digits; *)
(* a value outside int64 is a range error.                                 *)
(***************************************************************************)
ParseIntMag(bs_) ==
    CHOOSE out_ \in {(
        BOfDigits(Unsigned(bs))
        ) : bs \in {bs_}} : TRUE
ParseIntOk(bs_) ==
    CHOOSE out_ \in {(
        /\ Unsigned(bs) # <<>> /\ AllDigits(Unsigned(bs))
        /\ IInRange(StartsWith(bs, "-"), ParseIntMag(bs))
        ) : bs \in {bs_}} : TRUE
ParseInt(bs_) ==
    CHOOSE out_ \in {(
        IMake(StartsWith(bs, "-"), ParseIntMag(bs))
        ) : bs \in {bs_}} : TRUE

(***************************************************************************)
(* strconv.ParseFloat(s, 64).  special: an optional sign and "inf" or      *)
(* "infinity", or "nan", in any case.  readFloat: an optional sign, an     *)
(* optional 0x, digits with at most one point and with underscores, an     *)
(* exponent (e for decimal digits; p, which is required, for hexadecimal   *)
(* digits).  The value is the float64 nearest to the number written; one   *)
(* that rounds to an infinity is a range error.                            *)
(***************************************************************************)
UpperCase == <<"A", "B", "C", "D", "E", "F", "G", "H", "I", "J", "K", "L", "M",
               "N", "O", "P", "Q", "R", "S", "T", "U", "V", "W", "X", "Y", "Z">>
LowerCase == <<"a", "b", "c", "d", "e", "f", "g", "h", "i", "j", "k", "l", "m",
               "n", "o", "p", "q", "r", "s", "t", "u", "v", "w", "x", "y", "z">>
lower(c_) ==
    CHOOSE out_ \in {(
        IF \E i \in 1..Len(UpperCase) : UpperCase[i] = c
        THEN LowerCase[CHOOSE i \in 1..Len(UpperCase) : UpperCase[i] = c]
        ELSE c
        ) : c \in {c_}} : TRUE
LowerText(bs_) ==
    CHOOSE out_ \in {(
        [i \in 1..Len(bs) |-> lower(bs[i])]
        ) : bs \in {bs_}} : TRUE
IsHexLetter(c_) ==
    CHOOSE out_ \in {(
        lower(c) \in {"a", "b", "c", "d", "e", "f"}
        ) : c \in {c_}} : TRUE
HexLetterVal(c_) ==
    CHOOSE out_ \in {(
        9 + (CHOOSE i \in 1..6 : LowerCase[i] = lower(c))
        ) : c \in {c_}} : TRUE

special_ok(bs_) ==
    CHOOSE out_ \in {(
        \/ LowerText(Unsigned(bs)) \in {<<"i", "n", "f">>, <<"i", "n", "f", "i", "n", "i", "t", "y">>}
        \/ LowerText(bs) = <<"n", "a", "n">>
        ) : bs \in {bs_}} : TRUE
special(bs_) ==
    CHOOSE out_ \in {(
        IF LowerText(bs) = <<"n", "a", "n">> THEN FNaN ELSE FInf(StartsWith(bs, "-"))
        ) : bs \in {bs_}} : TRUE

(* the state of readFloat: i is the position of the next byte (from 1), mant *)
(* the digits read so far as a natural, nd their number without the leading  *)
(* zeros, dp the position of the point among them, e the exponent            *)
rf_start(bs_) ==
    CHOOSE out_ \in {(
        [i |-> IF HasSign(bs) THEN 2 ELSE 1, hex |-> FALSE, stop |-> FALSE, ok |-> TRUE,
         sawdot |-> FALSE, sawdigits |-> FALSE, nd |-> 0, dp |-> 0, mant |-> <<>>, e |-> 0]
        ) : bs \in {bs_}} : TRUE
rf_is_hex(bs_, i_) ==
    CHOOSE out_ \in {(
        i + 2 <= Len(bs) /\ bs[i] = "0" /\ lower(bs[i + 1]) = "x"
        ) : bs \in {bs_}, i \in {i_}} : TRUE
rf_base(bs_, s_) ==
    CHOOSE out_ \in {(
        IF rf_is_hex(bs, s.i) THEN [s EXCEPT !.i = @ + 2, !.hex = TRUE] ELSE s
        ) : bs \in {bs_}, s \in {s_}} : TRUE
rf_radix(s_) ==
    CHOOSE out_ \in {(
        IF s.hex THEN 16 ELSE 10
        ) : s \in {s_}} : TRUE
rf_add(s_, v_) ==
    CHOOSE out_ \in {(
        [s EXCEPT !.i = @ + 1, !.sawdigits = TRUE, !.nd = @ + 1, !.mant = BMulAdd(@, rf_radix(s), v)]
        ) : s \in {s_}, v \in {v_}} : TRUE
rf_digit(s_, c_) ==
    CHOOSE out_ \in {(
        IF c = "_" THEN [s EXCEPT !.i = @ + 1]
        ELSE IF c = "." THEN
            (IF s.sawdot THEN [s EXCEPT !.stop = TRUE]
             ELSE [s EXCEPT !.i = @ + 1, !.sawdot = TRUE, !.dp = s.nd])
        ELSE IF IsDigit(c) THEN
            (IF c = "0" /\ s.nd = 0
             THEN [s EXCEPT !.i = @ + 1, !.sawdigits = TRUE, !.dp = @ - 1]
             ELSE rf_add(s, DigitVal(c)))
        ELSE IF s.hex /\ IsHexLetter(c) THEN rf_add(s, HexLetterVal(c))
        ELSE [s EXCEPT !.stop = TRUE]
        ) : s \in {s_}, c \in {c_}} : TRUE
RECURSIVE rf_digits_loop(_, _, _, _)
rf_digits_loop(bs_, s_, lo_, hi_) ==
    CHOOSE out_ \in {(
        IF lo > hi \/ s.stop THEN s
        ELSE IF lo = hi THEN rf_digit(s, bs[lo])
        ELSE rf_digits_loop(bs, rf_digits_loop(bs, s, lo, Mid(lo, hi)), Mid(lo, hi) + 1, hi)
        ) : bs \in {bs_}, s \in {s_}, lo \in {lo_}, hi \in {hi_}} : TRUE
rf_digits(bs_, s_) ==
    CHOOSE out_ \in {(
        rf_digits_loop(bs, s, s.i, Len(bs))
        ) : bs \in {bs_}, s \in {s_}} : TRUE
rf_point(s_) ==
    CHOOSE out_ \in {(
        [s EXCEPT !.stop = FALSE, !.ok = s.sawdigits,
                  !.dp = (IF s.sawdot THEN s.dp ELSE s.nd) * (IF s.hex THEN 4 ELSE 1),
                  !.nd = s.nd * (IF s.hex THEN 4 ELSE 1)]
        ) : s \in {s_}} : TRUE
rf_exp_char(s_) ==
    CHOOSE out_ \in {(
        IF s.hex THEN "p" ELSE "e"
        ) : s \in {s_}} : TRUE
rf_exp_digit(s_, c_) ==
    CHOOSE out_ \in {(
        IF c = "_" THEN [s EXCEPT !.i = @ + 1]
        ELSE IF IsDigit(c)
        THEN [s EXCEPT !.i = @ + 1, !.e = IF @ < 10000 THEN @ * 10 + DigitVal(c) ELSE @]
        ELSE [s EXCEPT !.stop = TRUE]
        ) : s \in {s_}, c \in {c_}} : TRUE
rf_exp_move(s_, esign_) ==
    CHOOSE out_ \in {(
        [s EXCEPT !.dp = @ + esign * s.e]
        ) : s \in {s_}, esign \in {esign_}} : TRUE
RECURSIVE rf_exp_loop(_, _, _, _)
rf_exp_loop(bs_, s_, lo_, hi_) ==
    CHOOSE out_ \in {(
        IF lo > hi \/ s.stop THEN s
        ELSE IF lo = hi THEN rf_exp_digit(s, bs[lo])
        ELSE rf_exp_loop(bs, rf_exp_loop(bs, s, lo, Mid(lo, hi)), Mid(lo, hi) + 1, hi)
        ) : bs \in {bs_}, s \in {s_}, lo \in {lo_}, hi \in {hi_}} : TRUE
rf_exp_digits(bs_, s_, i_, esign_) ==
    CHOOSE out_ \in {(
        IF i > Len(bs) \/ ~IsDigit(bs[i]) THEN [s EXCEPT !.ok = FALSE]
        ELSE rf_exp_move(rf_exp_loop(bs, [s EXCEPT !.i = i], i, Len(bs)), esign)
        ) : bs \in {bs_}, s \in {s_}, i \in {i_}, esign \in {esign_}} : TRUE
rf_exp_sign(bs_, s_, i_) ==
    CHOOSE out_ \in {(
        IF i > Len(bs) THEN [s EXCEPT !.ok = FALSE]
        ELSE IF bs[i] = "+" THEN rf_exp_digits(bs, s, i + 1, 1)
        ELSE IF bs[i] = "-" THEN rf_exp_digits(bs, s, i + 1, -1)
        ELSE rf_exp_digits(bs, s, i, 1)
        ) : bs \in {bs_}, s \in {s_}, i \in {i_}} : TRUE
rf_exp(bs_, s_) ==
    CHOOSE out_ \in {(
        IF ~s.ok THEN s
        ELSE IF s.i <= Len(bs) /\ lower(bs[s.i]) = rf_exp_char(s) THEN rf_exp_sign(bs, s, s.i + 1)
        ELSE IF s.hex THEN [s EXCEPT !.ok = FALSE]
        ELSE s
        ) : bs \in {bs_}, s \in {s_}} : TRUE

(* underscoreOK: an underscore stands only between two digits, or between *)
(* the base prefix and a digit                                            *)
uo_hex(u_) ==
    CHOOSE out_ \in {(
        Len(u) >= 2 /\ u[1] = "0" /\ lower(u[2]) = "x"
        ) : u \in {u_}} : TRUE
uo_prefix(u_) ==
    CHOOSE out_ \in {(
        Len(u) >= 2 /\ u[1] = "0" /\ lower(u[2]) \in {"b", "o", "x"}
        ) : u \in {u_}} : TRUE
uo_is_digit(u_, hex_, i_) ==
    CHOOSE out_ \in {(
        IsDigit(u[i]) \/ (hex /\ IsHexLetter(u[i]))
        ) : u \in {u_}, hex \in {hex_}, i \in {i_}} : TRUE
uo_after_digit(u_, hex_, from_, i_) ==
    CHOOSE out_ \in {(
        IF i = from THEN from > 1 ELSE uo_is_digit(u, hex, i - 1)
        ) : u \in {u_}, hex \in {hex_}, from \in {from_}, i \in {i_}} : TRUE
uo_body(u_, hex_, from_) ==
    CHOOSE out_ \in {(
        \A i \in from..Len(u) :
            u[i] = "_" => /\ uo_after_digit(u, hex, from, i)
                          /\ i < Len(u) /\ uo_is_digit(u, hex, i + 1)
        ) : u \in {u_}, hex \in {hex_}, from \in {from_}} : TRUE
underscoreOK(bs_) ==
    CHOOSE out_ \in {(
        uo_body(Unsigned(bs), uo_hex(Unsigned(bs)), IF uo_prefix(Unsigned(bs)) THEN 3 ELSE 1)
        ) : bs \in {bs_}} : TRUE
rf_underscores(bs_, s_) ==
    CHOOSE out_ \in {(
        IF s.ok /\ (\E j \in 1..(s.i - 1) : bs[j] = "_") /\ ~underscoreOK(SubSeq(bs, 1, s.i - 1))
        THEN [s EXCEPT !.ok = FALSE] ELSE s
        ) : bs \in {bs_}, s \in {s_}} : TRUE
readFloat(bs_) ==
    CHOOSE out_ \in {(
        IF bs = <<>> THEN [rf_start(bs) EXCEPT !.ok = FALSE]
        ELSE rf_underscores(bs, rf_exp(bs, rf_point(rf_digits(bs, rf_base(bs, rf_start(bs))))))
        ) : bs \in {bs_}} : TRUE

(* the float64 nearest to mant * 10^x *)
DecUp(neg_, mant_, x_) ==
    CHOOSE out_ \in {(
        FRound(neg, BMul(mant, BPow(5, x)), x, FALSE)
        ) : neg \in {neg_}, mant \in {mant_}, x \in {x_}} : TRUE
DecShift(mant_, den_) ==
    CHOOSE out_ \in {(
        IF MantBits + 2 + BBits(den) - BBits(mant) > 0
        THEN MantBits + 2 + BBits(den) - BBits(mant) ELSE 0
        ) : mant \in {mant_}, den \in {den_}} : TRUE
DecQuot(neg_, qr_, e_) ==
    CHOOSE out_ \in {(
        FRound(neg, qr.q, e, qr.r # <<>>)
        ) : neg \in {neg_}, qr \in {qr_}, e \in {e_}} : TRUE
DecDiv(neg_, mant_, den_, k_, sh_) ==
    CHOOSE out_ \in {(
        DecQuot(neg, BDivMod(BShl(mant, sh), den), -k - sh)
        ) : neg \in {neg_}, mant \in {mant_}, den \in {den_}, k \in {k_}, sh \in {sh_}} : TRUE
DecDown(neg_, mant_, k_, den_) ==
    CHOOSE out_ \in {(
        DecDiv(neg, mant, den, k, DecShift(mant, den))
        ) : neg \in {neg_}, mant \in {mant_}, k \in {k_}, den \in {den_}} : TRUE
DecDigits(mant_) ==
    CHOOSE out_ \in {(
        Len(BDigits(mant))
        ) : mant \in {mant_}} : TRUE
DecFloat(neg_, mant_, x_) ==
    CHOOSE out_ \in {(
        IF mant = <<>> THEN FZero(neg)
        ELSE IF DecDigits(mant) + x > 310 THEN FInf(neg)
        ELSE IF DecDigits(mant) + x < -330 THEN FZero(neg)
        ELSE IF x >= 0 THEN DecUp(neg, mant, x)
        ELSE DecDown(neg, mant, -x, BPow(5, -x))
        ) : neg \in {neg_}, mant \in {mant_}, x \in {x_}} : TRUE
(* mant * 2^x for hexadecimal digits *)
HexFloat(neg_, mant_, x_) ==
    CHOOSE out_ \in {(
        IF mant = <<>> THEN FZero(neg)
        ELSE IF BBits(mant) + x > MaxExp + 1 THEN FInf(neg)
        ELSE IF BBits(mant) + x < MinExp - 1 THEN FZero(neg)
        ELSE FRound(neg, mant, x, FALSE)
        ) : neg \in {neg_}, mant \in {mant_}, x \in {x_}} : TRUE
rf_value(bs_, s_) ==
    CHOOSE out_ \in {(
        IF s.hex THEN HexFloat(StartsWith(bs, "-"), s.mant, s.dp - s.nd)
        ELSE DecFloat(StartsWith(bs, "-"), s.mant, s.dp - s.nd)
        ) : bs \in {bs_}, s \in {s_}} : TRUE
pf_out(ok_, val_) ==
    CHOOSE out_ \in {(
        [ok |-> ok, val |-> val]
        ) : ok \in {ok_}, val \in {val_}} : TRUE
pf_value(v_) ==
    CHOOSE out_ \in {(
        pf_out(~FIsInf(v), v)
        ) : v \in {v_}} : TRUE
pf_read(bs_, s_) ==
    CHOOSE out_ \in {(
        IF s.ok /\ s.i = Len(bs) + 1 THEN pf_value(rf_value(bs, s)) ELSE pf_out(FALSE, FZero(FALSE))
        ) : bs \in {bs_}, s \in {s_}} : TRUE
parse_float(bs_) ==
    CHOOSE out_ \in {(
        IF special_ok(bs) THEN pf_out(TRUE, special(bs)) ELSE pf_read(bs, readFloat(bs))
        ) : bs \in {bs_}} : TRUE
ParseFloatOk(bs_) ==
    CHOOSE out_ \in {(
        parse_float(bs).ok
        ) : bs \in {bs_}} : TRUE
ParseFloat(bs_) ==
    CHOOSE out_ \in {(
        parse_float(bs).val
        ) : bs \in {bs_}} : TRUE

----------------------------------------------------------------------------
(* Entity, icestorm.go:29-32 *)
Entity(data, type) == [Data |-> data, E_type |-> type]

(* conv_arg, icestorm.go:83-157.  A token that begins with a quote is     *)
(* sliced [1 : len-1]; for a one-byte token that slice is [1:0] and Go    *)
(* panics (slice bounds out of range).                                    *)
conv_arg_panics(bs_arg) ==
    /\ (StartsWith(bs_arg, "\"") \/ StartsWith(bs_arg, "'"))
    /\ ~StartsWith(bs_arg, "@")
    /\ Len(bs_arg) < 2

conv_arg(bs_arg) ==
    IF StartsWith(bs_arg, "@") THEN Entity(bs_arg, T_LABEL)
    ELSE IF StartsWith(bs_arg, "\"") \/ StartsWith(bs_arg, "'")
        THEN Entity(SubSeq(bs_arg, 2, Len(bs_arg) - 1), T_STR)
    ELSE IF Join(bs_arg) = "true" \/ Join(bs_arg) = "false"
        THEN Entity(Join(bs_arg) = "true", T_BOOL)
    ELSE IF ParseIntOk(bs_arg) THEN Entity(ParseInt(bs_arg), T_INT)
    ELSE IF ParseFloatOk(bs_arg) THEN Entity(ParseFloat(bs_arg), T_FLOAT)
    ELSE Entity(bs_arg, T_UNDET)

----------------------------------------------------------------------------
(* parse_args, icestorm.go:159-234.  The loop state is the record s; st   *)
(* becomes "error" at a compile_error (os.Exit) and "panic" at a Go       *)
(* run-time panic, and the remaining bytes are then not processed.        *)

pa_start ==
    [args |-> <<>>, buf |-> <<>>, d_quote |-> FALSE, s_quote |-> FALSE,
     after_parentheses |-> FALSE, st |-> "ok", msg |-> ""]

(* args = append(args, vm.conv_arg(buf[:buf_idx])); buf_idx = 0 *)
pa_emit(s) ==
    IF conv_arg_panics(s.buf)
    THEN [s EXCEPT !.st = "panic", !.msg = "slice bounds out of range"]
    ELSE [s EXCEPT !.args = Append(@, conv_arg(s.buf)), !.buf = <<>>]

pa_push(s, c) == [s EXCEPT !.buf = Append(@, c)]

(* one iteration of the loop body, icestorm.go:168-220 *)
pa_step(s, c) ==
    IF s.d_quote THEN
        IF c = "\""
        THEN [pa_emit(pa_push(s, "\"")) EXCEPT !.d_quote = FALSE,
                                                !.after_parentheses = TRUE]
        ELSE pa_push(s, c)
    ELSE IF s.s_quote THEN
        IF c = "'"
        THEN [pa_emit(pa_push(s, "'")) EXCEPT !.s_quote = FALSE,
                                               !.after_parentheses = TRUE]
        ELSE pa_push(s, c)
    ELSE IF c = "," THEN
        IF ~s.after_parentheses THEN pa_emit(s)
        ELSE [s EXCEPT !.after_parentheses = FALSE]
    ELSE IF c = "\"" THEN
        IF s.buf # <<>>
        THEN [s EXCEPT !.st = "error", !.msg = "Syntax ERROR: Expected , before \""]
        ELSE [pa_push(s, "\"") EXCEPT !.d_quote = TRUE]
    ELSE IF c = "'" THEN
        IF s.buf # <<>>
        THEN [s EXCEPT !.st = "error", !.msg = "Syntax ERROR: Expected , before '"]
        ELSE [pa_push(s, "'") EXCEPT !.s_quote = TRUE]
    ELSE IF c # " " THEN
        IF ~s.after_parentheses THEN pa_push(s, c) ELSE s
    ELSE s

RECURSIVE pa_loop(_, _, _)
pa_loop(s, line, i) ==
    IF i > Len(line) \/ s.st # "ok" THEN s
    ELSE pa_loop(pa_step(s, line[i]), line, i + 1)

(* after the loop, icestorm.go:222-233 *)
pa_quotes(t) ==
    IF t.st # "ok" THEN t
    ELSE IF t.d_quote
        THEN [t EXCEPT !.st = "error", !.msg = "Syntax ERROR: Missing \""]
    ELSE IF t.s_quote
        THEN [t EXCEPT !.st = "error", !.msg = "Syntax ERROR: Missing '"]
    ELSE t

pa_finish(s) ==
    IF s.st # "ok" THEN s
    ELSE IF s.buf # <<>> THEN pa_quotes(pa_emit(s))
    ELSE pa_quotes(s)

parse_args(line) == pa_finish(pa_loop(pa_start, line, 1))

----------------------------------------------------------------------------
(* strconv.FormatInt(n, 10) and the %d verb of fmt *)
RECURSIVE FormatNat(_)
FormatNat(n) ==
    IF n < 10 THEN <<Digits[n + 1]>>
    ELSE FormatNat(n \div 10) \o <<Digits[(n % 10) + 1]>>
FormatInt(n) == IF n < 0 THEN <<"-">> \o FormatNat(-n) ELSE FormatNat(n)
(* strconv.FormatInt(i, 10) of an int64, icestorm.go:690 *)
FormatInt64(i) == IF i.neg THEN <<"-">> \o BDigits(i.mag) ELSE BDigits(i.mag)

(* instruction, icestorm.go:34-37.  Inst is kept as the byte sequence of  *)
(* the mnemonic; Join(Inst) is the Go string used as a map key.           *)
instruction(inst, args) == [Inst |-> inst, Args |-> args]

(* InstructionDesc, icestorm.go:39-42; fn names the Go handler *)
InstructionDesc(fn, n_args) == [Function |-> fn, N_args |-> n_args]

(* chk_nargs, icestorm.go:72-81: "" when the count is right *)
nargs_text(expected_nargs, n_elements) ==
    "(" \o Join(FormatInt(expected_nargs)) \o " expected but "
        \o Join(FormatInt(n_elements)) \o " given)"
(* a chk_nargs without the "Too few arguments" branch of icestorm.go:76 *)
chk_nargs_no_few(args, expected_nargs) ==
    IF Len(args) > expected_nargs
    THEN "Syntax ERROR: Too many arguments" \o nargs_text(expected_nargs, Len(args))
    ELSE ""
chk_nargs(args, expected_nargs) ==
    IF Len(args) > expected_nargs
    THEN "Syntax ERROR: Too many arguments" \o nargs_text(expected_nargs, Len(args))
    ELSE IF Len(args) < expected_nargs
    THEN "Syntax ERROR: Too few arguments" \o nargs_text(expected_nargs, Len(args))
    ELSE ""

(* parse_oneline, icestorm.go:236-274, against instruction table itab.    *)
(* Result: [st, msg, program] with st "ok", "error" (compile_error) or    *)
(* "panic".                                                               *)
po_result(st, msg, program) == [st |-> st, msg |-> msg, program |-> program]

po_append(m, instr, args, program) ==
    IF m # "" THEN po_result("error", m, program)
    ELSE po_result("ok", "", Append(program, instruction(instr, args)))

po_checked(instr, args, itab, program) ==
    po_append(chk_nargs(args, itab[Join(instr)].N_args), instr, args, program)

po_parsed(instr, pa, itab, program) ==
    IF pa.st # "ok" THEN po_result(pa.st, pa.msg, program)
    ELSE po_checked(instr, pa.args, itab, program)

(* the branch for a line with a space: sep_line := SplitN(line, " ", 2) *)
po_split(instr, rest, program, itab) ==
    IF Join(instr) \in DOMAIN itab
    THEN po_parsed(instr, parse_args(rest), itab, program)
    ELSE IF StartsWith(instr, "@")
    THEN po_result("error",
             "Syntax ERROR: Expected newline after label definition", program)
    ELSE po_result("error",
             "Syntax ERROR: Unknown instruction " \o Join(instr), program)

po_at(line, sp, program, itab) ==
    po_split(SubSeq(line, 1, sp - 1), SubSeq(line, sp + 1, Len(line)), program, itab)

parse_oneline(line, program, itab) ==
    IF IndexRune(line, " ") = 0 THEN
        IF Join(line) \in DOMAIN itab
        THEN po_checked(line, <<>>, itab, program)
        ELSE IF StartsWith(line, "@")
        THEN po_result("ok", "", Append(program, instruction(line, <<>>)))
        ELSE IF line # <<>>
        THEN po_result("error",
                       "Syntax ERROR: Unknown instruction " \o Join(line), program)
        ELSE po_result("ok", "", program)
    ELSE po_at(line, IndexRune(line, " "), program, itab)

(* set_labels, icestorm.go:276-287.  Indices are 0-based as in Go:        *)
(* inst_list[k+1] of the model is code.inst_list[k] of the program.       *)
IsLabelDef(instr) == StartsWith(instr.Inst, "@")

set_labels_program(program) ==
    [i \in 1..Len(program) |->
        IF IsLabelDef(program[i])
        THEN [program[i] EXCEPT !.Inst = <<"n", "o", "p">>]
        ELSE program[i]]

(* a later definition of the same name overwrites the earlier index *)
LabelLines(program, n) ==
    {i \in 1..Len(program) : IsLabelDef(program[i]) /\ Join(program[i].Inst) = n}
Max(S) == CHOOSE i \in S : \A j \in S : j <= i
(* a set_labels that records the 1-based line number instead of the      *)
(* 0-based index i of icestorm.go:281                                     *)
set_labels_table_one_based(program) ==
    [n \in {Join(program[i].Inst) : i \in {j \in 1..Len(program) : IsLabelDef(program[j])}}
        |-> Max(LabelLines(program, n))]
set_labels_table(program) ==
    [n \in {Join(program[i].Inst) : i \in {j \in 1..Len(program) : IsLabelDef(program[j])}}
        |-> Max(LabelLines(program, n)) - 1]

Bytecode(inst_list, labels) == [inst_list |-> inst_list, label_table |-> labels]

(* strings.Split(script, "\n") *)
RECURSIVE Split(_, _)
SplitAt(text, sep, p) ==
    IF p = 0 THEN <<text>>
    ELSE <<SubSeq(text, 1, p - 1)>> \o Split(SubSeq(text, p + 1, Len(text)), sep)
Split(text, sep) == SplitAt(text, sep, IndexRune(text, sep))

(* strings.TrimLeftFunc(line, c == '\n' || c == '\t' || c == ' ') *)
RECURSIVE TrimLeft(_)
TrimLeft(line) ==
    IF line # <<>> /\ line[1] \in {"\n", "\t", " "} THEN TrimLeft(Tail(line)) ELSE line

(* parse_script, icestorm.go:289-299: the loop over the lines; pos is the *)
(* value left in vm.exec_pos (the index of the last line looked at).      *)
ps_result(st, msg, program, pos) ==
    [st |-> st, msg |-> msg, pos |-> pos,
     code |-> Bytecode(set_labels_program(program), set_labels_table(program))]

RECURSIVE ps_loop(_, _, _, _)
ps_next(lines, i, program, itab, r) ==
    IF r.st # "ok" THEN ps_result(r.st, r.msg, program, i - 1)
    ELSE ps_loop(lines, i + 1, r.program, itab)
ps_loop(lines, i, program, itab) ==
    IF i > Len(lines) THEN ps_result("ok", "", program, Len(lines) - 1)
    ELSE ps_next(lines, i, program, itab,
                 parse_oneline(TrimLeft(lines[i]), program, itab))

parse_script(source, itab) == ps_loop(Split(source, "\n"), 1, <<>>, itab)

----------------------------------------------------------------------------
(* Run-time values.  A Go interface{} scalar is [go, val]: go names the   *)
(* dynamic type ("int64", "float64", "bool", "string") and val is the     *)
(* value (an integer, a fraction, a boolean, a byte sequence).            *)
Scalar(go, val) == [go |-> go, val |-> val]

ga_ok(val, type) == [ok |-> TRUE, msg |-> "", val |-> val, type |-> type]
ga_err(msg) == [ok |-> FALSE, msg |-> msg, val |-> Scalar("nil", 0), type |-> T_UNDET]

(* the switch on the kind of a value that passed the mask test,          *)
(* icestorm.go:326-365                                                    *)
ga_switch(arg) ==
    IF arg.E_type = T_INT THEN ga_ok(Scalar("int64", arg.Data), T_INT)
    ELSE IF arg.E_type = T_FLOAT THEN ga_ok(Scalar("float64", arg.Data), T_FLOAT)
    ELSE IF arg.E_type = T_BOOL THEN ga_ok(Scalar("bool", arg.Data), T_BOOL)
    ELSE IF arg.E_type = T_STR THEN ga_ok(Scalar("string", arg.Data), T_STR)
    ELSE IF arg.E_type = T_LABEL THEN ga_ok(Scalar("string", arg.Data), T_LABEL)
    ELSE ga_err("System ERROR: Unknown typeid " \o Join(FormatInt(arg.E_type))
                \o ". Maybe incompatible bytecode?")

(* Get_argument, icestorm.go:309-368, reading variable table vt *)
RECURSIVE Get_argument(_, _, _)
(* variant: the mask is not applied to the value a symbol is bound to *)
Get_argument_symbol_unmasked(vt, arg, type_mask) ==
    IF arg.E_type = T_UNDET THEN
        IF Join(arg.Data) \notin DOMAIN vt
        THEN ga_err("Argument ERROR: Unbound symbol " \o Join(arg.Data))
        ELSE ga_switch(vt[Join(arg.Data)])
    ELSE IF BitAnd(arg.E_type, type_mask) = 0
        THEN ga_err("Type ERROR: Type mismatch")
    ELSE ga_switch(arg)
Get_argument(vt, arg, type_mask) ==
    IF arg.E_type = T_UNDET THEN
        IF Join(arg.Data) \notin DOMAIN vt
        THEN ga_err("Argument ERROR: Unbound symbol " \o Join(arg.Data))
        ELSE Get_argument(vt, vt[Join(arg.Data)], type_mask)
    ELSE IF BitAnd(arg.E_type, type_mask) = 0
        THEN ga_err("Type ERROR: Type mismatch")
    ELSE ga_switch(arg)

(* Get_baresymbol, icestorm.go:369-380: the symbol's bytes *)
gb_ok(sym) == [ok |-> TRUE, msg |-> "", sym |-> sym]
gb_err(msg) == [ok |-> FALSE, msg |-> msg, sym |-> <<>>]
(* variant: a label operand is taken as a name *)
Get_baresymbol_label_named(value) ==
    IF value.E_type \notin {T_UNDET, T_LABEL} THEN gb_err("Type ERROR: Type mismatch")
    ELSE gb_ok(value.Data)
Get_baresymbol(value) ==
    IF value.E_type # T_UNDET THEN gb_err("Type ERROR: Type mismatch")
    ELSE gb_ok(value.Data)

(* itoentity, icestorm.go:381-425: the kind follows the Go dynamic type,  *)
(* so a string scalar always becomes T_STR.                               *)
itoentity_ok(value) == value.go \in {"int64", "float64", "bool", "string"}
(* an itoentity that gives a string scalar beginning with @ the kind      *)
(* LABEL, where icestorm.go:413-415 gives every string the kind STR       *)
itoentity_label_kind(value) ==
    IF value.go = "int64" THEN Entity(value.val, T_INT)
    ELSE IF value.go = "float64" THEN Entity(value.val, T_FLOAT)
    ELSE IF value.go = "bool" THEN Entity(value.val, T_BOOL)
    ELSE IF StartsWith(value.val, "@") THEN Entity(value.val, T_LABEL)
    ELSE Entity(value.val, T_STR)
itoentity(value) ==
    IF value.go = "int64" THEN Entity(value.val, T_INT)
    ELSE IF value.go = "float64" THEN Entity(value.val, T_FLOAT)
    ELSE IF value.go = "bool" THEN Entity(value.val, T_BOOL)
    ELSE Entity(value.val, T_STR)

(* Assign_var, icestorm.go:426-441.  Result: [st, msg, var_table] with st *)
(* "ok", "error" or "panic"; on an error the process exits before the     *)
(* table is written.                                                      *)
av_out(st, msg, vt) == [st |-> st, msg |-> msg, var_table |-> vt]

Bind(vt, name, ent) ==
    [n \in DOMAIN vt \cup {name} |-> IF n = name THEN ent ELSE vt[n]]

(* an Assign_var without the kind test of icestorm.go:429-431: a bound    *)
(* name is overwritten whatever the kind of the new value                 *)
av_store_untyped(vt, symbol, name, source) ==
    IF name \in DOMAIN vt THEN av_out("ok", "", Bind(vt, name, source))
    ELSE IF conv_arg_panics(symbol)
        THEN av_out("panic", "slice bounds out of range", vt)
    ELSE IF conv_arg(symbol).E_type # T_UNDET
        THEN av_out("error", "Type ERROR: Invalid symbol name " \o name, vt)
    ELSE av_out("ok", "", Bind(vt, name, source))

av_store(vt, symbol, name, source) ==
    IF name \in DOMAIN vt THEN
        IF vt[name].E_type # source.E_type
        THEN av_out("error", "Type ERROR: Type mismatch", vt)
        ELSE av_out("ok", "", Bind(vt, name, source))
    ELSE IF conv_arg_panics(symbol)
        THEN av_out("panic", "slice bounds out of range", vt)
    ELSE IF conv_arg(symbol).E_type # T_UNDET
        THEN av_out("error", "Type ERROR: Invalid symbol name " \o name, vt)
    ELSE av_out("ok", "", Bind(vt, name, source))

Assign_var(vt, symbol, value) ==
    IF ~itoentity_ok(value)
    THEN av_out("error",
           "VM ERROR: Tried to convert a value with type that is not compatible with Iceberg", vt)
    ELSE av_store(vt, symbol, Join(symbol), itoentity(value))

----------------------------------------------------------------------------
(* Outcome of a handler: st "ok" (it returned), "error" (Runtime_error,   *)
(* os.Exit) or "panic" (Go run-time panic), with the variable table and   *)
(* exec_pos it leaves.                                                    *)
h_out(st, msg, vt, pos) == [st |-> st, msg |-> msg, var_table |-> vt, exec_pos |-> pos]
h_ok(vt, pos) == h_out("ok", "", vt, pos)
h_err(msg, vt, pos) == h_out("error", msg, vt, pos)

(* the handler's outcome after vm.Assign_var returned a *)
h_assigned(vt, pos, a) ==
    IF a.st = "ok" THEN h_ok(a.var_table, pos) ELSE h_out(a.st, a.msg, vt, pos)

(* sym_name := vm.Get_baresymbol(dest); vm.Assign_var(sym_name, value) *)
h_assign_sym(vt, pos, g, value) ==
    IF ~g.ok THEN h_err(g.msg, vt, pos)
    ELSE h_assigned(vt, pos, Assign_var(vt, g.sym, value))
h_assign(vt, pos, dest, value) == h_assign_sym(vt, pos, Get_baresymbol(dest), value)

(* inst_nop, icestorm.go:467-469 *)
inst_nop(vt, lt, pos, args) == h_ok(vt, pos)

(* inst_let, icestorm.go:471-475 *)
let_value(vt, pos, g, v) ==
    IF ~v.ok THEN h_err(v.msg, vt, pos)
    ELSE h_assigned(vt, pos, Assign_var(vt, g.sym, v.val))
let_sym(vt, pos, args, g) ==
    IF ~g.ok THEN h_err(g.msg, vt, pos)
    ELSE let_value(vt, pos, g, Get_argument(vt, args[2], T_ANY))
inst_let(vt, lt, pos, args) == let_sym(vt, pos, args, Get_baresymbol(args[1]))

(* arb_calc, icestorm.go:477-530.  The outcomes of one call form a set:   *)
(* int64(source) of a source that does not fit and math.Pow with a        *)
(* fractional exponent depend on the build.                               *)
arb_is_divr(operator) == operator = "/"

(* float64(int64(ope_a_s) % int64(ope_b_s)), icestorm.go:514, for every   *)
(* divisor other than zero                                                *)
arb_mod(a, b) ==
    {FInt(GoRem(x, y)) : x \in FTruncSet(a), y \in FTruncSet(b) \ {I64(0)}}

(* a switch whose "//" truncates toward zero, without the math.Floor of   *)
(* icestorm.go:503                                                        *)
arb_source_div_truncates(operator, a, b) ==
    CASE operator = "+" -> {FAdd(a, b)}
      [] operator = "-" -> {FSub(a, b)}
      [] operator = "*" -> {FMul(a, b)}
      [] operator = "//" -> {FTruncF(FDiv(a, b))}
      [] operator = "/" -> {FDiv(a, b)}
      [] operator = "%" -> arb_mod(a, b)
      [] operator = "**" -> FPow(a, b)

(* the switch on the operator, icestorm.go:492-519: the values source can *)
(* take                                                                   *)
arb_source(operator, a, b) ==
    CASE operator = "+" -> {FAdd(a, b)}
      [] operator = "-" -> {FSub(a, b)}
      [] operator = "*" -> {FMul(a, b)}
      [] operator = "//" -> {FFloor(FDiv(a, b))}
      [] operator = "/" -> {FDiv(a, b)}
      [] operator = "%" -> arb_mod(a, b)
      [] operator = "**" -> FPow(a, b)

(* an answer whose kind follows the first operand alone, without the     *)
(* is_divr test of icestorm.go:522                                        *)
arb_ans_no_divr(type_a, operator, source) ==
    IF type_a = T_INT
    THEN {Scalar("int64", i) : i \in FTruncSet(source)}
    ELSE {Scalar("float64", source)}

(* the kind of the answer, icestorm.go:521-526 *)
arb_ans(type_a, operator, source) ==
    IF type_a = T_INT /\ ~arb_is_divr(operator)
    THEN {Scalar("int64", i) : i \in FTruncSet(source)}
    ELSE {Scalar("float64", source)}

(* a mod without the zero test of icestorm.go:511-513 *)
arb_checks_zero_no_mod(operator) == operator \in {"//", "/"}

(* the operators that test ope_b_s == 0, icestorm.go:500, 505, 511 *)
arb_checks_zero(operator) == operator \in {"//", "/", "%"}

(* int64(ope_b_s) can be zero: the % of icestorm.go:514 panics *)
arb_panics(operator, ope_b_s) == operator = "%" /\ I64(0) \in FTruncSet(ope_b_s)

arb_assigned(vt, pos, dest, type_a, operator, sources) ==
    {h_assign(vt, pos, dest, ans) :
        ans \in UNION {arb_ans(type_a, operator, source) : source \in sources}}

arb_compute(vt, pos, args, operator, type_a, ope_a_s, ope_b_s) ==
    IF arb_checks_zero(operator) /\ FIsZero(ope_b_s)
    THEN {h_err("Math ERROR: Division by zero", vt, pos)}
    ELSE IF operator \notin {"+", "-", "*", "//", "/", "%", "**"}
    THEN {h_err("System ERROR: Unknown operator " \o operator
                \o " Possibly a bug in VM", vt, pos)}
    ELSE (IF arb_panics(operator, ope_b_s)
          THEN {h_out("panic", "runtime error: integer divide by zero", vt, pos)}
          ELSE {})
         \cup arb_assigned(vt, pos, args[3], type_a, operator,
                           arb_source(operator, ope_a_s, ope_b_s))

(* ope_a_s, ope_b_s: both operands as float64, icestorm.go:481-488 *)
arb_float(type_a, val) == IF type_a = T_INT THEN FInt(val) ELSE val

arb_b(vt, pos, args, operator, ra, rb) ==
    IF ~rb.ok THEN {h_err(rb.msg, vt, pos)}
    ELSE arb_compute(vt, pos, args, operator, ra.type,
                     arb_float(ra.type, ra.val.val), arb_float(ra.type, rb.val.val))
arb_a(vt, pos, args, operator, ra) ==
    IF ~ra.ok THEN {h_err(ra.msg, vt, pos)}
    ELSE arb_b(vt, pos, args, operator, ra, Get_argument(vt, args[2], ra.type))
arb_calc(vt, pos, args, operator) ==
    arb_a(vt, pos, args, operator, Get_argument(vt, args[1], T_INT + T_FLOAT))

inst_add(vt, lt, pos, args) == arb_calc(vt, pos, args, "+")
inst_sub(vt, lt, pos, args) == arb_calc(vt, pos, args, "-")
inst_mul(vt, lt, pos, args) == arb_calc(vt, pos, args, "*")
inst_div(vt, lt, pos, args) == arb_calc(vt, pos, args, "//")
inst_div_r(vt, lt, pos, args) == arb_calc(vt, pos, args, "/")
inst_mod(vt, lt, pos, args) == arb_calc(vt, pos, args, "%")
inst_pow(vt, lt, pos, args) == arb_calc(vt, pos, args, "**")

----------------------------------------------------------------------------
(* Byte order of the printable ASCII characters (codes 32..126), for Go's *)
(* string comparison.                                                     *)
(* codes 32..95 and 97..126 (the grave accent, 96, cannot be written in a *)
(* TLA+ string and is not used)                                           *)
AsciiLow ==
  <<" ", "!", "\"", "#", "$", "%", "&", "'", "(", ")", "*", "+",
    ",", "-", ".", "/", "0", "1", "2", "3", "4", "5", "6", "7",
    "8", "9", ":", ";", "<", "=", ">", "?", "@", "A", "B", "C",
    "D", "E", "F", "G", "H", "I", "J", "K", "L", "M", "N", "O",
    "P", "Q", "R", "S", "T", "U", "V", "W", "X", "Y", "Z", "[",
    "\\", "]", "^", "_">>
AsciiHigh ==
  <<"a", "b", "c", "d", "e", "f", "g", "h", "i", "j", "k", "l",
    "m", "n", "o", "p", "q", "r", "s", "t", "u", "v", "w", "x",
    "y", "z", "{", "|", "}", "~">>
Ord(c) ==
    IF \E i \in 1..Len(AsciiLow) : AsciiLow[i] = c
    THEN 31 + (CHOOSE i \in 1..Len(AsciiLow) : AsciiLow[i] = c)
    ELSE 96 + (CHOOSE i \in 1..Len(AsciiHigh) : AsciiHigh[i] = c)

RECURSIVE StrLess(_, _)
StrLess(a, b) ==
    IF b = <<>> THEN FALSE
    ELSE IF a = <<>> THEN TRUE
    ELSE IF a[1] # b[1] THEN Ord(a[1]) < Ord(b[1])
    ELSE StrLess(Tail(a), Tail(b))

(* inst_cmp, icestorm.go:554-605 *)
CmpOps == {">", ">=", "==", "<=", "<", "!="}
(* a comparison that reads "<" as "<=" (icestorm.go:576, 592) *)
cmp_result_le(op, lt_, eq_, gt_) ==
    CASE op = ">" -> gt_
      [] op = ">=" -> gt_ \/ eq_
      [] op = "==" -> eq_
      [] op = "<=" -> lt_ \/ eq_
      [] op = "<" -> lt_ \/ eq_
      [] op = "!=" -> ~eq_
(* the two switches, icestorm.go:561-574 and 586-601: with a NaN neither  *)
(* of lt_, eq_, gt_ holds                                                 *)
cmp_result(op, lt_, eq_, gt_) ==
    CASE op = ">" -> gt_
      [] op = ">=" -> gt_ \/ eq_
      [] op = "==" -> eq_
      [] op = "<=" -> lt_ \/ eq_
      [] op = "<" -> lt_
      [] op = "!=" -> ~eq_

(* a < c and a == c on strings, or on float64 after the conversion of     *)
(* icestorm.go:578-585                                                    *)
cmp_less(type_a, a, c) ==
    IF type_a = T_STR THEN StrLess(a, c)
    ELSE IF type_a = T_INT THEN FLess(FInt(a), FInt(c))
    ELSE FLess(a, c)
cmp_equal(type_a, a, c) ==
    IF type_a = T_STR THEN a = c
    ELSE IF type_a = T_INT THEN FEq(FInt(a), FInt(c))
    ELSE FEq(a, c)

(* the %x verb of fmt on a string: two lower-case hex digits per byte *)
HexDigits ==
  <<"0", "1", "2", "3", "4", "5", "6", "7", "8", "9", "a", "b", "c", "d", "e", "f">>
HexByte(n) == HexDigits[(n \div 16) + 1] \o HexDigits[(n % 16) + 1]
RECURSIVE HexOf(_)
HexOf(bs) == IF bs = <<>> THEN "" ELSE HexByte(Ord(Head(bs))) \o HexOf(Tail(bs))

(* the default branches of the two switches, icestorm.go:573-574 and      *)
(* 599-600; op is the operator's bytes                                    *)
cmp_unknown(type_a, op) ==
    IF type_a = T_STR THEN "Argument ERROR: Unknown oeprator " \o Join(op)
    ELSE "Argument ERROR: Unknown oeprator " \o HexOf(op) \o ", " \o HexOf(<<"<">>)

cmp_do(vt, pos, args, type_a, a, op, c) ==
    IF Join(op) \notin CmpOps
    THEN h_err(cmp_unknown(type_a, op), vt, pos)
    ELSE h_assign(vt, pos, args[4],
                  Scalar("bool", cmp_result(Join(op), cmp_less(type_a, a, c),
                                            cmp_equal(type_a, a, c), cmp_less(type_a, c, a))))
cmp_c(vt, pos, args, ra, rb, rc) ==
    IF ~rc.ok THEN h_err(rc.msg, vt, pos)
    ELSE cmp_do(vt, pos, args, ra.type, ra.val.val, rb.val.val, rc.val.val)
cmp_b(vt, pos, args, ra, rb) ==
    IF ~rb.ok THEN h_err(rb.msg, vt, pos)
    ELSE cmp_c(vt, pos, args, ra, rb, Get_argument(vt, args[3], ra.type))
cmp_a(vt, pos, args, ra) ==
    IF ~ra.ok THEN h_err(ra.msg, vt, pos)
    ELSE cmp_b(vt, pos, args, ra, Get_argument(vt, args[2], T_STR))
inst_cmp(vt, lt, pos, args) ==
    cmp_a(vt, pos, args,
          Get_argument(vt, args[1], BitXor(BitXor(T_ANY, T_BOOL), T_LABEL)))

(* arb_bool, icestorm.go:606-623 *)
bool_source(operator, a, b) ==
    CASE operator = "and" -> a /\ b
      [] operator = "or" -> a \/ b
      [] operator = "xor" -> a # b
bool_b(vt, pos, args, operator, ra, rb) ==
    IF ~rb.ok THEN h_err(rb.msg, vt, pos)
    ELSE h_assign(vt, pos, args[3],
                  Scalar("bool", bool_source(operator, ra.val.val, rb.val.val)))
bool_a(vt, pos, args, operator, ra) ==
    IF ~ra.ok THEN h_err(ra.msg, vt, pos)
    ELSE bool_b(vt, pos, args, operator, ra, Get_argument(vt, args[2], T_BOOL))
arb_bool(vt, pos, args, operator) ==
    bool_a(vt, pos, args, operator, Get_argument(vt, args[1], T_BOOL))

inst_and(vt, lt, pos, args) == arb_bool(vt, pos, args, "and")
inst_or(vt, lt, pos, args) == arb_bool(vt, pos, args, "or")
inst_xor(vt, lt, pos, args) == arb_bool(vt, pos, args, "xor")

(* inst_not, icestorm.go:633-637 *)
not_r(vt, pos, args, r) ==
    IF ~r.ok THEN h_err(r.msg, vt, pos)
    ELSE h_assign(vt, pos, args[2], Scalar("bool", ~r.val.val))
inst_not(vt, lt, pos, args) == not_r(vt, pos, args, Get_argument(vt, args[1], T_BOOL))

(* an int that also accepts a STR and parses it as a base-10 integer,     *)
(* where icestorm.go:640 resolves its operand with T_INT | T_FLOAT        *)
int_parsed(type_o, operand) ==
    CASE type_o = T_INT -> {operand}
      [] type_o = T_FLOAT -> FTruncSet(operand)
      [] type_o = T_STR -> {IF ParseIntOk(operand) THEN ParseInt(operand) ELSE I64(0)}
int_parsed_r(vt, pos, args, r) ==
    IF ~r.ok THEN {h_err(r.msg, vt, pos)}
    ELSE {h_assign(vt, pos, args[1], Scalar("int64", i)) : i \in int_parsed(r.type, r.val.val)}
inst_int_parses(vt, lt, pos, args) ==
    int_parsed_r(vt, pos, args, Get_argument(vt, args[2], T_INT + T_FLOAT + T_STR))

(* inst_int, icestorm.go:639-651 (the warning is output only); int64(f)   *)
(* of a float64 that does not fit depends on the build                    *)
int_source(type_o, operand) == IF type_o = T_INT THEN {operand} ELSE FTruncSet(operand)
int_r(vt, pos, args, r) ==
    IF ~r.ok THEN {h_err(r.msg, vt, pos)}
    ELSE {h_assign(vt, pos, args[1], Scalar("int64", i)) : i \in int_source(r.type, r.val.val)}
inst_int(vt, lt, pos, args) ==
    int_r(vt, pos, args, Get_argument(vt, args[2], T_INT + T_FLOAT))

(* inst_float, icestorm.go:652-664 *)
float_r(vt, pos, args, r) ==
    IF ~r.ok THEN h_err(r.msg, vt, pos)
    ELSE h_assign(vt, pos, args[1],
             Scalar("float64", IF r.type = T_FLOAT THEN r.val.val ELSE FInt(r.val.val)))
inst_float(vt, lt, pos, args) ==
    float_r(vt, pos, args, Get_argument(vt, args[2], T_INT + T_FLOAT))

(* inst_bool, icestorm.go:665-682 *)
bool_cast(type_o, operand) ==
    CASE type_o = T_INT -> operand # I64(0)
      [] type_o = T_FLOAT -> ~FIsZero(operand)
      [] type_o = T_BOOL -> operand
      [] type_o = T_STR -> operand # <<>>
bool_r(vt, pos, args, r) ==
    IF ~r.ok THEN h_err(r.msg, vt, pos)
    ELSE h_assign(vt, pos, args[1], Scalar("bool", bool_cast(r.type, r.val.val)))
inst_bool(vt, lt, pos, args) ==
    bool_r(vt, pos, args, Get_argument(vt, args[2], BitXor(T_ANY, T_LABEL)))

(* inst_str, icestorm.go:683-704: the BOOL branch yields "false" for true *)
(* and "true" for false, as the source is written.                        *)
str_cast(type_o, operand) ==
    CASE type_o = T_INT -> FormatInt64(operand)
      [] type_o = T_FLOAT -> FormatFloat(operand)
      [] type_o = T_BOOL ->
           IF operand THEN <<"f", "a", "l", "s", "e">> ELSE <<"t", "r", "u", "e">>
      [] type_o = T_STR -> operand
str_r(vt, pos, args, r) ==
    IF ~r.ok THEN h_err(r.msg, vt, pos)
    ELSE h_assign(vt, pos, args[1], Scalar("string", str_cast(r.type, r.val.val)))
inst_str(vt, lt, pos, args) ==
    str_r(vt, pos, args, Get_argument(vt, args[2], BitXor(T_ANY, T_LABEL)))

(* inst_cat, icestorm.go:706-712 *)
cat_b(vt, pos, args, ra, rb) ==
    IF ~rb.ok THEN h_err(rb.msg, vt, pos)
    ELSE h_assign(vt, pos, args[3], Scalar("string", ra.val.val \o rb.val.val))
cat_a(vt, pos, args, ra) ==
    IF ~ra.ok THEN h_err(ra.msg, vt, pos)
    ELSE cat_b(vt, pos, args, ra, Get_argument(vt, args[2], T_STR))
inst_cat(vt, lt, pos, args) == cat_a(vt, pos, args, Get_argument(vt, args[1], T_STR))

(* the label lookup and jump shared by goto and when, icestorm.go:717-721 *)
(* and 727-733: prog_idx, exist := vm.label_table[name]                   *)
(* a jump that subtracts one to compensate for the increment of the      *)
(* dispatch loop, where icestorm.go:721 stores prog_idx itself            *)
jump_compensated(vt, lt, pos, name, taken) ==
    IF name \notin DOMAIN lt
    THEN h_err("Argument ERROR: Unset label " \o name, vt, pos)
    ELSE IF taken THEN h_ok(vt, lt[name] - 1)
    ELSE h_ok(vt, pos)
(* a jump that falls through on a missing label, without the test of      *)
(* icestorm.go:718-720                                                    *)
jump_unset_ignored(vt, lt, pos, name, taken) ==
    IF name \notin DOMAIN lt THEN h_ok(vt, pos)
    ELSE IF taken THEN h_ok(vt, lt[name])
    ELSE h_ok(vt, pos)
(* variant: the label is looked up only when the jump is taken *)
jump_untaken_unchecked(vt, lt, pos, name, taken) ==
    IF ~taken THEN h_ok(vt, pos)
    ELSE IF name \notin DOMAIN lt
    THEN h_err("Argument ERROR: Unset label " \o name, vt, pos)
    ELSE h_ok(vt, lt[name])
jump(vt, lt, pos, name, taken) ==
    IF name \notin DOMAIN lt
    THEN h_err("Argument ERROR: Unset label " \o name, vt, pos)
    ELSE IF taken THEN h_ok(vt, lt[name])
    ELSE h_ok(vt, pos)

(* inst_goto, icestorm.go:714-722; lt is vm.label_table *)
goto_r(vt, lt, pos, r) ==
    IF ~r.ok THEN h_err(r.msg, vt, pos)
    ELSE jump(vt, lt, pos, Join(r.val.val), TRUE)
inst_goto(vt, lt, pos, args) == goto_r(vt, lt, pos, Get_argument(vt, args[1], T_LABEL))

(* inst_when, icestorm.go:723-734 *)
when_c(vt, lt, pos, r, c) ==
    IF ~c.ok THEN h_err(c.msg, vt, pos)
    ELSE jump(vt, lt, pos, Join(r.val.val), c.val.val)
when_r(vt, lt, pos, args, r) ==
    IF ~r.ok THEN h_err(r.msg, vt, pos)
    ELSE when_c(vt, lt, pos, r, Get_argument(vt, args[1], T_BOOL))
inst_when(vt, lt, pos, args) ==
    when_r(vt, lt, pos, args, Get_argument(vt, args[2], T_LABEL))

(* inst_dump, icestorm.go:736-744: resolves every variable with T_ANY and *)
(* prints it; the VM state is not written.  The map is visited in no      *)
(* fixed order, so the run ends with the message of any entry that does   *)
(* not resolve.                                                           *)
dump_failed(vt) == {n \in DOMAIN vt : ~Get_argument(vt, vt[n], T_ANY).ok}
dump_out(vt, pos, failed) ==
    IF failed = {} THEN {h_ok(vt, pos)}
    ELSE {h_err(Get_argument(vt, vt[n], T_ANY).msg, vt, pos) : n \in failed}
inst_dump(vt, lt, pos, args) == dump_out(vt, pos, dump_failed(vt))

(* inst_print of the host, misc/benchmark.go:14-17 *)
print_r(vt, pos, r) == IF ~r.ok THEN h_err(r.msg, vt, pos) ELSE h_ok(vt, pos)
inst_print(vt, lt, pos, args) == print_r(vt, pos, Get_argument(vt, args[1], T_STR))

----------------------------------------------------------------------------
(* Init, icestorm.go:751-779: the built-in instruction table *)
Builtins ==
    [m \in {"nop", "let", "add", "sub", "mul", "div", "div_r", "mod", "pow", "cmp",
            "and", "or", "xor", "not", "int", "float", "bool", "str", "cat",
            "goto", "when", "dump"} |->
        CASE m = "nop" -> InstructionDesc("inst_nop", 0)
          [] m = "let" -> InstructionDesc("inst_let", 2)
          [] m = "add" -> InstructionDesc("inst_add", 3)
          [] m = "sub" -> InstructionDesc("inst_sub", 3)
          [] m = "mul" -> InstructionDesc("inst_mul", 3)
          [] m = "div" -> InstructionDesc("inst_div", 3)
          [] m = "div_r" -> InstructionDesc("inst_div_r", 3)
          [] m = "mod" -> InstructionDesc("inst_mod", 3)
          [] m = "pow" -> InstructionDesc("inst_pow", 3)
          [] m = "cmp" -> InstructionDesc("inst_cmp", 4)
          [] m = "and" -> InstructionDesc("inst_and", 3)
          [] m = "or" -> InstructionDesc("inst_or", 3)
          [] m = "xor" -> InstructionDesc("inst_xor", 3)
          [] m = "not" -> InstructionDesc("inst_not", 2)
          [] m = "int" -> InstructionDesc("inst_int", 2)
          [] m = "float" -> InstructionDesc("inst_float", 2)
          [] m = "bool" -> InstructionDesc("inst_bool", 2)
          [] m = "str" -> InstructionDesc("inst_str", 2)
          [] m = "cat" -> InstructionDesc("inst_cat", 3)
          [] m = "goto" -> InstructionDesc("inst_goto", 1)
          [] m = "when" -> InstructionDesc("inst_when", 2)
          [] m = "dump" -> InstructionDesc("inst_dump", 0)]

(* the host's table after testVM.start, misc/benchmark.go:19-22 *)
WithPrint ==
    [m \in DOMAIN Builtins \cup {"print"} |->
        IF m = "print" THEN InstructionDesc("inst_print", 1) ELSE Builtins[m]]

EmptyMap == <<>>

(* vm.Inst_table[instr.Inst].Function(instr.Args), icestorm.go:462: the   *)
(* outcomes the call can have                                             *)
Handler(fn, vt, lt, pos, args) ==
    CASE fn = "inst_nop" -> {inst_nop(vt, lt, pos, args)}
      [] fn = "inst_let" -> {inst_let(vt, lt, pos, args)}
      [] fn = "inst_add" -> inst_add(vt, lt, pos, args)
      [] fn = "inst_sub" -> inst_sub(vt, lt, pos, args)
      [] fn = "inst_mul" -> inst_mul(vt, lt, pos, args)
      [] fn = "inst_div" -> inst_div(vt, lt, pos, args)
      [] fn = "inst_div_r" -> inst_div_r(vt, lt, pos, args)
      [] fn = "inst_mod" -> inst_mod(vt, lt, pos, args)
      [] fn = "inst_pow" -> inst_pow(vt, lt, pos, args)
      [] fn = "inst_cmp" -> {inst_cmp(vt, lt, pos, args)}
      [] fn = "inst_and" -> {inst_and(vt, lt, pos, args)}
      [] fn = "inst_or" -> {inst_or(vt, lt, pos, args)}
      [] fn = "inst_xor" -> {inst_xor(vt, lt, pos, args)}
      [] fn = "inst_not" -> {inst_not(vt, lt, pos, args)}
      [] fn = "inst_int" -> inst_int(vt, lt, pos, args)
      [] fn = "inst_float" -> {inst_float(vt, lt, pos, args)}
      [] fn = "inst_bool" -> {inst_bool(vt, lt, pos, args)}
      [] fn = "inst_str" -> {inst_str(vt, lt, pos, args)}
      [] fn = "inst_cat" -> {inst_cat(vt, lt, pos, args)}
      [] fn = "inst_goto" -> {inst_goto(vt, lt, pos, args)}
      [] fn = "inst_when" -> {inst_when(vt, lt, pos, args)}
      [] fn = "inst_dump" -> inst_dump(vt, lt, pos, args)
      [] fn = "inst_print" -> {inst_print(vt, lt, pos, args)}

----------------------------------------------------------------------------
(* The state machine: a host that owns one VM.                            *)

Alive == [kind |-> "", msg |-> "", pos |-> 0]
Exit(kind, msg, pos) == [kind |-> kind, msg |-> msg, pos |-> pos]

(* inst_max := int64(len(code.inst_list) - 1), icestorm.go:458 *)
inst_max == Len(code.inst_list) - 1

(* the state after construction and vm.Init() *)
Init ==
    /\ exec_pos = 0
    /\ Inst_table = Builtins
    /\ label_table = EmptyMap
    /\ var_table = EmptyMap
    /\ script = <<>>
    /\ code = Bytecode(<<>>, EmptyMap)
    /\ phase = "idle"
    /\ exit = Alive
    /\ fetched = -1
    /\ runs = 0

(* vm.Init(), icestorm.go:751-779, called again by the host *)
VMInit ==
    /\ phase = "idle"
    /\ Inst_table' = Builtins
    /\ label_table' = EmptyMap
    /\ var_table' = EmptyMap
    /\ UNCHANGED <<exec_pos, script, code, phase, exit, fetched, runs>>

(* testVM.start, misc/benchmark.go:19-22: Init, then register print *)
start ==
    /\ phase = "idle"
    /\ Inst_table' = WithPrint
    /\ label_table' = EmptyMap
    /\ var_table' = EmptyMap
    /\ UNCHANGED <<exec_pos, script, code, phase, exit, fetched, runs>>

(* Gen_bytecode, icestorm.go:301-307; r is what parse_script returned *)
Compiled(r) ==
    /\ exec_pos' = r.pos
    /\ IF r.st = "ok"
       THEN /\ code' = r.code
            /\ phase' = "compiled"
            /\ UNCHANGED exit
       ELSE /\ phase' = "exited"
            /\ exit' = Exit(IF r.st = "panic" THEN "panic" ELSE "compile_error",
                            r.msg, r.pos)
            /\ UNCHANGED code
    /\ UNCHANGED <<Inst_table, label_table, var_table, fetched, runs>>

Gen_bytecode(source) ==
    /\ phase = "idle"
    /\ script' = source
    /\ Compiled(parse_script(source, Inst_table))

(* Run, icestorm.go:455-459: the set-up before the loop; the host runs    *)
(* the program it has just compiled, misc/benchmark.go:36-38             *)
(* a Run that adds the program's labels to the labels the VM already     *)
(* holds, where icestorm.go:457 replaces the table                        *)
Run_labels_merged ==
    /\ phase = "compiled"
    /\ exec_pos' = 0
    /\ label_table' =
          [n \in DOMAIN label_table \cup DOMAIN code.label_table |->
              IF n \in DOMAIN code.label_table THEN code.label_table[n]
              ELSE label_table[n]]
    /\ phase' = "running"
    /\ fetched' = -1
    /\ runs' = runs + 1
    /\ UNCHANGED <<Inst_table, var_table, script, code, exit>>

Run ==
    /\ phase = "compiled"
    /\ exec_pos' = 0
    /\ label_table' = code.label_table
    /\ phase' = "running"
    /\ fetched' = -1
    /\ runs' = runs + 1
    /\ UNCHANGED <<Inst_table, var_table, script, code, exit>>

(* a dispatch loop without the vm.exec_pos++ of icestorm.go:463 *)
Dispatched_no_step(o) ==
    IF o.st = "ok"
    THEN /\ var_table' = o.var_table
         /\ exec_pos' = o.exec_pos
         /\ UNCHANGED <<phase, exit>>
    ELSE /\ phase' = "exited"
         /\ exit' = Exit(IF o.st = "panic" THEN "panic" ELSE "runtime_error",
                         o.msg, o.exec_pos)
         /\ UNCHANGED <<exec_pos, var_table>>

(* one iteration of the dispatch loop, icestorm.go:460-464; o is the     *)
(* outcome of the handler, and vm.exec_pos++ follows its return          *)
Dispatched(o) ==
    IF o.st = "ok"
    THEN /\ var_table' = o.var_table
         /\ exec_pos' = o.exec_pos + 1
         /\ UNCHANGED <<phase, exit>>
    ELSE /\ phase' = "exited"
         /\ exit' = Exit(IF o.st = "panic" THEN "panic" ELSE "runtime_error",
                         o.msg, o.exec_pos)
         /\ UNCHANGED <<exec_pos, var_table>>

Fetched(instr) ==
    IF Join(instr.Inst) \notin DOMAIN Inst_table
    THEN /\ phase' = "exited"
         /\ exit' = Exit("panic", "invalid memory address or nil pointer dereference",
                         exec_pos)
         /\ UNCHANGED <<exec_pos, var_table>>
    ELSE \E o \in Handler(Inst_table[Join(instr.Inst)].Function,
                           var_table, label_table, exec_pos, instr.Args) : Dispatched(o)

Dispatch ==
    /\ phase = "running"
    /\ exec_pos <= inst_max
    /\ fetched' = exec_pos
    /\ Fetched(code.inst_list[exec_pos + 1])
    /\ UNCHANGED <<Inst_table, label_table, script, code, runs>>

(* the loop condition fails and Run returns, icestorm.go:460, 465 *)
RunReturn ==
    /\ phase = "running"
    /\ exec_pos > inst_max
    /\ phase' = "idle"
    /\ UNCHANGED <<exec_pos, Inst_table, label_table, var_table, script, code, exit,
                   fetched, runs>>

----------------------------------------------------------------------------
(* Source programs of the host.  Script joins lines with "\n".            *)
RECURSIVE Script(_)
Script(lines) ==
    IF lines = <<>> THEN <<>>
    ELSE IF Len(lines) = 1 THEN lines[1]
    ELSE lines[1] \o <<"\n">> \o Script(Tail(lines))

(* P_loop: the counting loop *)
P_loop ==
    Script(<<
        <<"l", "e", "t", " ", "i", ",", " ", "0">>,   \* let i, 0
        <<"@", "l", "o", "o", "p">>,   \* @loop
        <<"a", "d", "d", " ", "i", ",", " ", "1", ",", " ", "i">>,   \* add i, 1, i
        <<"c", "m", "p", " ", "i", ",", " ", "\"", "<", "\"", ",", " ", "3", ",", " ", "c">>,   \* cmp i, "<", 3, c
        <<"w", "h", "e", "n", " ", "c", ",", " ", "@", "l", "o", "o", "p">>   \* when c, @loop
    >>)
(* P_retype: a second let of another kind *)
P_retype ==
    Script(<<
        <<"l", "e", "t", " ", "x", ",", " ", "4", "2">>,   \* let x, 42
        <<"l", "e", "t", " ", "x", ",", " ", "\"", "h", "i", "\"">>   \* let x, "hi"
    >>)
(* P_float_x: binds x as FLOAT *)
P_float_x ==
    Script(<<
        <<"l", "e", "t", " ", "x", ",", " ", "1", ".", "5">>   \* let x, 1.5
    >>)
(* P_goto_nope: goto to a label that is not defined *)
P_goto_nope ==
    Script(<<
        <<"l", "e", "t", " ", "k", ",", " ", "1">>,   \* let k, 1
        <<"g", "o", "t", "o", " ", "@", "n", "o", "p", "e">>,   \* goto @nope
        <<"l", "e", "t", " ", "k", ",", " ", "2">>   \* let k, 2
    >>)
(* P_goto_end: the label is the last line *)
P_goto_end ==
    Script(<<
        <<"l", "e", "t", " ", "x", ",", " ", "1">>,   \* let x, 1
        <<"g", "o", "t", "o", " ", "@", "e", "n", "d">>,   \* goto @end
        <<"l", "e", "t", " ", "x", ",", " ", "2">>,   \* let x, 2
        <<"@", "e", "n", "d">>   \* @end
    >>)
(* P_goto_mid: a forward jump over one instruction *)
P_goto_mid ==
    Script(<<
        <<"g", "o", "t", "o", " ", "@", "a">>,   \* goto @a
        <<"l", "e", "t", " ", "y", ",", " ", "1">>,   \* let y, 1
        <<"@", "a">>,   \* @a
        <<"l", "e", "t", " ", "z", ",", " ", "2">>   \* let z, 2
    >>)
(* P_dup: the same label defined on two lines *)
P_dup ==
    Script(<<
        <<"g", "o", "t", "o", " ", "@", "a">>,   \* goto @a
        <<"@", "a">>,   \* @a
        <<"l", "e", "t", " ", "v", ",", " ", "0", ".", "5">>,   \* let v, 0.5
        <<"@", "a">>,   \* @a
        <<"l", "e", "t", " ", "w", ",", " ", "t", "r", "u", "e">>   \* let w, true
    >>)
(* P_uses_a: refers to @a without defining it *)
P_uses_a ==
    Script(<<
        <<"l", "e", "t", " ", "u", ",", " ", "\"", "s", "\"">>,   \* let u, "s"
        <<"g", "o", "t", "o", " ", "@", "a">>   \* goto @a
    >>)
(* P_when_nope: when with a false condition and no such label *)
P_when_nope ==
    Script(<<
        <<"l", "e", "t", " ", "c", ",", " ", "f", "a", "l", "s", "e">>,   \* let c, false
        <<"w", "h", "e", "n", " ", "c", ",", " ", "@", "n", "o", "p", "e">>   \* when c, @nope
    >>)
(* P_indent: leading blanks, an empty line, a trailing blank *)
P_indent ==
    Script(<<
        <<" ", " ", "n", "o", "p">>,   \*   nop
        <<>>,   \* (empty)
        <<"\t", "d", "u", "m", "p", " ">>,   \* <TAB>dump 
        <<"@", "z">>   \* @z
    >>)
(* P_print: uses the host's print *)
P_print ==
    Script(<<
        <<"l", "e", "t", " ", "s", ",", " ", "\"", "a", "b", "\"">>,   \* let s, "ab"
        <<"c", "a", "t", " ", "s", ",", " ", "\"", "c", "d", "\"", ",", " ", "t">>,   \* cat s, "cd", t
        <<"p", "r", "i", "n", "t", " ", "t">>   \* print t
    >>)
(* P_empty: the empty source *)
P_empty ==
    Script(<<
        <<>>   \* (empty)
    >>)
(* P_unknown: an unknown mnemonic with operands *)
P_unknown ==
    Script(<<
        <<"l", "e", "t", " ", "x", ",", " ", "1">>,   \* let x, 1
        <<"f", "o", "o", " ", "x">>   \* foo x
    >>)
(* P_unknown0: an unknown mnemonic alone *)
P_unknown0 ==
    Script(<<
        <<"b", "a", "r">>   \* bar
    >>)
(* P_few: too few operands *)
P_few ==
    Script(<<
        <<"l", "e", "t", " ", "x">>   \* let x
    >>)
(* P_many: too many operands *)
P_many ==
    Script(<<
        <<"n", "o", "p">>,   \* nop
        <<"l", "e", "t", " ", "x", ",", " ", "1", ",", " ", "2">>   \* let x, 1, 2
    >>)
(* P_label_args: operands on a label line *)
P_label_args ==
    Script(<<
        <<"@", "a", " ", "b">>   \* @a b
    >>)
(* P_missing_quote: a quote that is not closed *)
P_missing_quote ==
    Script(<<
        <<"l", "e", "t", " ", "x", ",", " ", "\"", "a", "b", "c">>   \* let x, "abc
    >>)
(* P_lone_quote: the operand text ends with the opening quote *)
P_lone_quote ==
    Script(<<
        <<"l", "e", "t", " ", "x", ",", " ", "\"">>   \* let x, "
    >>)
(* P_stray_quote: a quote in the middle of a token *)
P_stray_quote ==
    Script(<<
        <<"l", "e", "t", " ", "x", ",", " ", "a", "b", "\"", "c", "\"">>   \* let x, ab"c"
    >>)

Scripts ==
    {P_loop, P_retype, P_float_x, P_goto_nope, P_goto_end,
     P_goto_mid, P_dup, P_uses_a, P_when_nope, P_indent,
     P_print, P_empty, P_unknown, P_unknown0, P_few,
     P_many, P_label_args, P_missing_quote, P_lone_quote, P_stray_quote}

(* how many times the host compiles and runs a program on one VM *)
MaxRuns == 2

Next ==
    \/ VMInit
    \/ start
    \/ \E source \in Scripts : runs < MaxRuns /\ Gen_bytecode(source)
    \/ Run
    \/ Dispatch
    \/ RunReturn

Spec == Init /\ [][Next]_vars

(* The loop of Run is sequential code: while an iteration is possible the *)
(* next one is executed.  Iteration is a Dispatch step as the loop sees   *)
(* it, the fetch of the instruction at exec_pos; every handler has an     *)
(* outcome, so it is possible exactly when Dispatch is.                   *)
Iteration == phase = "running" /\ exec_pos <= inst_max /\ fetched' = exec_pos
FairSpec == Spec /\ WF_fetched(Iteration) /\ WF_vars(RunReturn)

----------------------------------------------------------------------------
(* A host that compiles and runs one program made of up to MaxLines      *)
(* lines of LinePool.                                                     *)
MaxLines == 3

LinePool ==
    {<<"@", "a">>,                                  \* @a
     <<"@", "b">>,                                  \* @b
     <<"n", "o", "p">>,                             \* nop
     <<"l", "e", "t", " ", "x", ",", " ", "1">>,    \* let x, 1
     <<"g", "o", "t", "o", " ", "@", "a">>,         \* goto @a
     <<"g", "o", "t", "o", " ", "@", "b">>,         \* goto @b
     <<"f", "o", "o">>,                             \* foo
     <<"l", "e", "t", " ", "x">>,                   \* let x
     <<"l", "e", "t", " ", "x", ",", "1", ",", "2">>,  \* let x,1,2
     <<"@", "a", " ", "b">>,                        \* @a b
     <<>>}                                          \* (empty)

LineScripts == {Script(ls) : ls \in UNION {[1..k -> LinePool] : k \in 1..MaxLines}}

NextLines ==
    \/ \E source \in LineScripts : runs < 1 /\ Gen_bytecode(source)
    \/ Run
    \/ Dispatch
    \/ RunReturn

SpecLines == Init /\ [][NextLines]_vars

----------------------------------------------------------------------------
(* A host that first runs Prelude, which binds n, f, b and s, and then   *)
(* compiles and runs one instruction whose operands range over literals   *)
(* and symbols.                                                           *)
Prelude ==
    Script(<<
        <<"l", "e", "t", " ", "n", ",", " ", "7">>,                     \* let n, 7
        <<"l", "e", "t", " ", "f", ",", " ", "2", ".", "5">>,           \* let f, 2.5
        <<"l", "e", "t", " ", "b", ",", " ", "t", "r", "u", "e">>,      \* let b, true
        <<"l", "e", "t", " ", "s", ",", " ", "\"", "a", "b", "\"">>     \* let s, "ab"
    >>)

(* integer literals -MaxLit..MaxLit; float literals k/2, k in -MaxHalf..MaxHalf *)
MaxLit == 2
MaxHalf == 3
IntLits == {FormatInt(n) : n \in (-MaxLit)..MaxLit}
HalfLit(k) ==
    (IF k < 0 THEN <<"-">> ELSE <<>>) \o FormatNat(Abs(k) \div 2)
    \o <<".">> \o (IF Abs(k) % 2 = 1 THEN <<"5">> ELSE <<"0">>)
FloatLits == {HalfLit(k) : k \in (-MaxHalf)..MaxHalf}

Sym_n == <<"n">>
Sym_f == <<"f">>
Sym_b == <<"b">>
Sym_s == <<"s">>
Sym_d == <<"d">>      \* not bound by Prelude
Lit_label == <<"@", "l", "a", "b">>
Lit_str == <<"'", "h", "i", "'">>
Lit_true == <<"t", "r", "u", "e">>

NumOperands == IntLits \cup FloatLits \cup {Sym_n, Sym_f, Sym_b}
Dests == {Sym_d, Sym_n, Sym_f, <<"5">>}
LetValues == NumOperands \cup {Sym_s, Sym_d, Lit_label, Lit_str, Lit_true}
LetDests == Dests \cup {Sym_b, Sym_s}

ArithMnemonics ==
    {<<"a", "d", "d">>, <<"s", "u", "b">>, <<"m", "u", "l">>, <<"d", "i", "v">>,
     <<"d", "i", "v", "_", "r">>, <<"m", "o", "d">>, <<"p", "o", "w">>}

Line2(mn, a, b) == mn \o <<" ">> \o a \o <<",", " ">> \o b
Line3(mn, a, b, c) == Line2(mn, a, b) \o <<",", " ">> \o c

ArithScripts ==
    {Line3(mn, a, b, d) :
        mn \in ArithMnemonics, d \in Dests,
        a \in NumOperands, b \in NumOperands}
LetScripts == {Line2(<<"l", "e", "t">>, d, v) : d \in LetDests, v \in LetValues}

Sym_e == <<"e">>      \* not bound by Prelude
(* str D, i followed by int D2, D *)
RoundTripScripts ==
    {Script(<<Line2(<<"s", "t", "r">>, d, i), Line2(<<"i", "n", "t">>, e, d)>>) :
        d \in {Sym_d, Sym_s}, e \in {Sym_e, Sym_n},
        i \in IntLits \cup {Sym_n, <<"-", "9", "2", "2", "3", "3", "7", "2", "0", "3", "6",
                                    "8", "5", "4", "7", "7", "5", "8", "0", "8">>}}

Lit_false == <<"f", "a", "l", "s", "e">>
(* str D, v for a BOOL v *)
StrBoolScripts ==
    {Line2(<<"s", "t", "r">>, d, v) :
        d \in {Sym_d, Sym_s}, v \in {Lit_true, Lit_false, Sym_b}}

(* every writing instruction, once per kind of destination operand *)
Line4(mn, a, b, c, d) == Line3(mn, a, b, c) \o <<",", " ">> \o d
Lit_lt == <<"\"", "<", "\"">>
Lit_tilde == <<"\"", "~", "\"">>
Sym_q == <<"q">>      \* not bound by Prelude
WriterDests == {Sym_d, <<"5">>, <<"1", ".", "5">>, Lit_true, Lit_str, Lit_label}
DestLines(d) ==
    {Line2(<<"l", "e", "t">>, d, v) : v \in {<<"1">>, Sym_q}}
    \cup {Line3(mn, a, <<"2">>, d) : mn \in ArithMnemonics, a \in {<<"1">>, Sym_q}}
    \cup {Line4(<<"c", "m", "p">>, a, op, <<"2">>, d) :
              a \in {<<"1">>, Sym_q}, op \in {Lit_lt, Lit_tilde}}
    \cup {Line3(mn, a, Lit_false, d) :
              mn \in {<<"a", "n", "d">>, <<"o", "r">>, <<"x", "o", "r">>},
              a \in {Lit_true, <<"1">>}}
    \cup {Line2(<<"n", "o", "t">>, a, d) : a \in {Lit_true, Sym_q}}
    \cup {Line2(mn, d, a) :
              mn \in {<<"i", "n", "t">>, <<"f", "l", "o", "a", "t">>,
                       <<"b", "o", "o", "l">>, <<"s", "t", "r">>},
              a \in {<<"1">>, Sym_q}}
    \cup {Line3(<<"c", "a", "t">>, a, Lit_str, d) : a \in {Lit_str, <<"1">>}}
DestScripts == UNION {DestLines(d) : d \in WriterDests}

(* goto and when with every kind of label operand and condition; @lab is *)
(* defined two lines below the jump and @no nowhere                       *)
Lit_nolabel == <<"@", "n", "o">>
Goto1(l) == <<"g", "o", "t", "o", " ">> \o l
JumpBody(line) ==
    Script(<<line, Line2(<<"l", "e", "t">>, Sym_d, <<"1">>), Lit_label,
             Line2(<<"l", "e", "t">>, Sym_e, <<"2">>)>>)
JumpTargets == {Lit_label, Lit_nolabel, Sym_n, Sym_f, Sym_b, Sym_s, Sym_q}
WhenConds == {Lit_true, Lit_false, Sym_b, Sym_n, Sym_q}
JumpScripts ==
    {JumpBody(Goto1(l)) : l \in JumpTargets}
    \cup {JumpBody(Line2(<<"w", "h", "e", "n">>, c, l)) : c \in WhenConds, l \in JumpTargets}
(* a variable bound from a label literal, then used as a jump target *)
LabelVarScripts ==
    {Script(<<Line2(<<"l", "e", "t">>, Sym_q, Lit_label), line, Lit_label>>) :
        line \in {Goto1(Sym_q), Line2(<<"w", "h", "e", "n">>, Lit_true, Sym_q)}}

(* operands at the edges of int64 and float64: 2^53 + 1 (no float64), the *)
(* greatest and the least int64, a decimal with no exact float64, an      *)
(* exponent, a value beyond int64, the negative zero, an infinity, a NaN  *)
Lit_2p53 == <<"9", "0", "0", "7", "1", "9", "9", "2", "5", "4", "7", "4", "0", "9", "9", "3">>
Lit_maxint == <<"9", "2", "2", "3", "3", "7", "2", "0", "3", "6", "8", "5", "4", "7", "7", "5", "8", "0", "7">>
Lit_minint == <<"-", "9", "2", "2", "3", "3", "7", "2", "0", "3", "6", "8", "5", "4", "7", "7", "5", "8", "0", "8">>
WideInts == {Lit_2p53, Lit_maxint, Lit_minint}
NearInts == {<<"1">>, <<"2">>, <<"-", "1">>}
Lit_tenth == <<"0", ".", "1">>
Lit_1e30 == <<"1", "e", "3", "0">>
Lit_negzero == <<"-", "0", ".", "0">>
Lit_inf == <<"i", "n", "f">>
Lit_nan == <<"n", "a", "n">>
EdgeFloats ==
    {Lit_tenth, <<"0", ".", "2">>, <<"0", ".", "3">>, <<"4", ".", "0">>,
     Lit_1e30, Lit_negzero, Lit_inf, Lit_nan}
Lit_eq == <<"\"", "=", "=", "\"">>
Lit_ge == <<"\"", ">", "=", "\"">>
EdgeScripts ==
    {Line3(mn, a, b, Sym_d) : mn \in ArithMnemonics, a \in WideInts, b \in NearInts}
    \cup {Line3(mn, a, b, Sym_d) : mn \in ArithMnemonics, a \in NearInts, b \in WideInts}
    \cup {Line3(mn, a, b, Sym_d) : mn \in ArithMnemonics, a \in EdgeFloats, b \in EdgeFloats}
    \cup {Line2(mn, Sym_d, a) :
              mn \in {<<"i", "n", "t">>, <<"f", "l", "o", "a", "t">>,
                       <<"b", "o", "o", "l">>, <<"s", "t", "r">>, <<"l", "e", "t">>},
              a \in WideInts \cup EdgeFloats \cup {<<"9", "2", "2", "3", "3", "7", "2", "0",
                         "3", "6", "8", "5", "4", "7", "7", "5", "8", "0", "8">>}}
    \cup {Line4(<<"c", "m", "p">>, a, op, c, Sym_d) :
              op \in {Lit_lt, Lit_eq, Lit_ge},
              a \in {Lit_nan, Lit_negzero, Lit_2p53}, c \in {Lit_nan, <<"0", ".", "0">>,
                         <<"9", "0", "0", "7", "1", "9", "9", "2", "5", "4", "7", "4", "0",
                           "9", "9", "2">>}}

OpScripts ==
    ArithScripts \cup LetScripts \cup RoundTripScripts \cup StrBoolScripts
        \cup DestScripts \cup JumpScripts \cup LabelVarScripts \cup EdgeScripts

NextOps ==
    \/ runs = 0 /\ Gen_bytecode(Prelude)
    \/ \E source \in OpScripts : runs = 1 /\ Gen_bytecode(source)
    \/ Run
    \/ Dispatch
    \/ RunReturn

SpecOps == Init /\ [][NextOps]_vars

----------------------------------------------------------------------------
(* The host compiles and runs one line: a mnemonic and an operand text    *)
(* over the bytes the tokenizer distinguishes (an ordinary byte, comma,   *)
(* the two quotes, space).                                                *)
MaxText == 4
ArgBytes == {"x", ",", "\"", "'", " "}
ArgTexts == UNION {[1..k -> ArgBytes] : k \in 1..MaxText}
(* arities 1, 2 and 3 *)
ArgMnemonics == {<<"g", "o", "t", "o">>, <<"l", "e", "t">>, <<"c", "a", "t">>}
ArgLines == {mn \o <<" ">> \o t : mn \in ArgMnemonics, t \in ArgTexts}

NextArgs ==
    \/ \E source \in ArgLines : runs < 1 /\ Gen_bytecode(source)
    \/ Run
    \/ Dispatch
    \/ RunReturn

SpecArgs == Init /\ [][NextArgs]_vars

----------------------------------------------------------------------------
(* Properties of the compiler (Gen_bytecode), checked under SpecLines.    *)

(* index k of the program is inst_list[k + 1] of the model *)
InstAt(k) == code.inst_list[k + 1]
Mnemonic(k) == Join(InstAt(k).Inst)

(* the lines of the source as parse_script hands them to parse_oneline *)
SourceLines == {TrimLeft(Split(script, "\n")[i]) : i \in 1..Len(Split(script, "\n"))}
LineHead(line, sp) == IF sp = 0 THEN line ELSE SubSeq(line, 1, sp - 1)
LineRest(line, sp) == IF sp = 0 THEN <<>> ELSE SubSeq(line, sp + 1, Len(line))
LineMnemonic(line) == LineHead(line, IndexRune(line, " "))
LineOperands(line) == parse_args(LineRest(line, IndexRune(line, " ")))
UnknownMnemonic(line) ==
    /\ line # <<>>
    /\ ~StartsWith(line, "@")
    /\ Join(LineMnemonic(line)) \notin DOMAIN Inst_table
WrongOperandCount(line) ==
    /\ Join(LineMnemonic(line)) \in DOMAIN Inst_table
    /\ LineOperands(line).st = "ok"
    /\ Len(LineOperands(line).args) # Inst_table[Join(LineMnemonic(line))].N_args

(* C1: in every program Gen_bytecode returns, every label of the label    *)
(* table maps to a valid index of the instruction list, and the           *)
(* instruction at that index has the mnemonic nop (the label's own line,  *)
(* rewritten by set_labels).                                              *)
C1_LabelsIndexNops ==
    phase = "compiled" =>
        \A L \in DOMAIN code.label_table :
            /\ code.label_table[L] \in 0..inst_max
            /\ Mnemonic(code.label_table[L]) = "nop"

(* a program in which @a is defined on the first and on the last line:    *)
(* the table holds the index of the last definition                       *)
C1_Witness ==
    /\ phase = "compiled"
    /\ script = Script(<<<<"@", "a">>, <<"n", "o", "p">>, <<"@", "a">>>>)
    /\ code.label_table["@a"] = 2
    /\ Mnemonic(0) = "nop" /\ Mnemonic(2) = "nop"

(* C2: every instruction of a program Gen_bytecode returns has a mnemonic *)
(* that is nop or a key of the instruction table and carries exactly as   *)
(* many operands as the table's arity for it (0 for nop); a source with a *)
(* line whose mnemonic is unknown, or whose operand count differs from    *)
(* the arity, is never compiled to a program.                             *)
C2_MnemonicsAndArity ==
    phase = "compiled" =>
        /\ \A k \in 0..inst_max :
              /\ Mnemonic(k) \in DOMAIN Inst_table
              /\ Len(InstAt(k).Args) = Inst_table[Mnemonic(k)].N_args
              /\ Mnemonic(k) = "nop" => Len(InstAt(k).Args) = 0
        /\ \A line \in SourceLines :
              ~UnknownMnemonic(line) /\ ~WrongOperandCount(line)

(* a compiled program holding a two-operand let after a label *)
C2_Witness ==
    /\ phase = "compiled"
    /\ inst_max = 2
    /\ Mnemonic(0) = "nop"
    /\ Mnemonic(1) = "let" /\ Len(InstAt(1).Args) = 2
    /\ Mnemonic(2) = "goto" /\ Len(InstAt(2).Args) = 1

----------------------------------------------------------------------------
(* Properties of Run, checked under Spec.                                 *)

(* the dispatch loop is about to fetch an instruction with mnemonic m *)
AboutTo(m) == phase = "running" /\ exec_pos <= inst_max /\ Mnemonic(exec_pos) = m
(* the instruction fetched last had mnemonic m and its handler returned *)
Returned(m) == phase = "running" /\ fetched >= 0 /\ Mnemonic(fetched) = m

(* the let about to run assigns to a bound name a value of another kind *)
LetOtherKind(dest, value) ==
    /\ dest.E_type = T_UNDET
    /\ Join(dest.Data) \in DOMAIN var_table
    /\ value.ok
    /\ itoentity(value.val).E_type # var_table[Join(dest.Data)].E_type
LetOtherKindNow ==
    /\ AboutTo("let")
    /\ LetOtherKind(InstAt(exec_pos).Args[1],
                    Get_argument(var_table, InstAt(exec_pos).Args[2], T_ANY))

TypeMismatchExit ==
    /\ phase' = "exited"
    /\ exit'.kind = "runtime_error"
    /\ exit'.msg = "Type ERROR: Type mismatch"
    /\ var_table' = var_table

KindsKept ==
    \A n \in DOMAIN var_table \cap DOMAIN var_table' :
        var_table'[n].E_type = var_table[n].E_type

(* C3: a name bound in the variable table keeps the kind of its first     *)
(* assignment through every step of every Run on the same VM (until Init  *)
(* empties the table), and an assignment of a value of another kind to a  *)
(* bound name ends in the fatal Type mismatch with the table unchanged.   *)
C3_FirstWriteTyping ==
    [][KindsKept /\ (LetOtherKindNow => TypeMismatchExit)]_vars

(* the second Run on the VM tried let x, 42 on the FLOAT x of the first   *)
C3_Witness ==
    /\ phase = "exited"
    /\ runs = 2
    /\ exit.msg = "Type ERROR: Type mismatch"
    /\ Mnemonic(fetched) = "let"
    /\ InstAt(fetched).Args[2].E_type = T_INT
    /\ "x" \in DOMAIN var_table
    /\ var_table["x"].E_type = T_FLOAT

(* the label operand of the goto at index k, and whether it is defined *)
GotoLabel(k) == Join(InstAt(k).Args[1].Data)
GotoDefined(k) ==
    /\ InstAt(k).Args[1].E_type = T_LABEL
    /\ GotoLabel(k) \in DOMAIN label_table
Halted == phase = "running" /\ exec_pos > inst_max

(* a halted Run returns to the host and executes nothing *)
HaltedReturns ==
    Halted => phase' = "idle" /\ UNCHANGED <<exec_pos, var_table, fetched>>

(* C5: after goto @L has executed with @L at index k of the running       *)
(* program's label table, the program counter is k + 1, so the next       *)
(* instruction the dispatch loop fetches is the one following the label   *)
(* line; if k is the last index the Run has halted, and a halted Run      *)
(* returns without executing anything further.                           *)
C5_GotoLandsAfterLabel ==
    /\ [](Returned("goto") /\ GotoDefined(fetched) =>
            /\ exec_pos = label_table[GotoLabel(fetched)] + 1
            /\ label_table[GotoLabel(fetched)] = inst_max => Halted)
    /\ [][HaltedReturns]_vars

(* goto @a has jumped over let y, 1: let z, 2 at index 3 is next *)
C5_Witness ==
    /\ Returned("goto")
    /\ fetched = 0
    /\ label_table["@a"] = 2
    /\ exec_pos = 3
    /\ inst_max = 3
    /\ Mnemonic(exec_pos) = "let"
    /\ "y" \notin DOMAIN var_table

(* the goto about to run names a label the running program lacks *)
GotoUnsetNow ==
    /\ AboutTo("goto")
    /\ InstAt(exec_pos).Args[1].E_type = T_LABEL
    /\ GotoLabel(exec_pos) \notin DOMAIN label_table
UnsetLabelExit ==
    /\ phase' = "exited"
    /\ exit' = Exit("runtime_error",
                    "Argument ERROR: Unset label " \o GotoLabel(exec_pos), exec_pos)
    /\ exec_pos' = exec_pos
    /\ var_table' = var_table

(* C6: a goto whose label is absent from the running program's label      *)
(* table ends in the fatal error Unset label: the program counter keeps   *)
(* the goto's own index, which the error reports, the variable table is   *)
(* unchanged, and no step follows the exit.                               *)
C6_GotoUnsetLabel ==
    [][(GotoUnsetNow => UnsetLabelExit) /\ phase # "exited"]_vars

(* goto @nope at index 1 has failed after let k, 1 *)
C6_Witness ==
    /\ phase = "exited"
    /\ exit = Exit("runtime_error", "Argument ERROR: Unset label @nope", 1)
    /\ exec_pos = 1
    /\ "k" \in DOMAIN var_table
    /\ var_table["k"].Data = I64(1)

LoopStarted ==
    /\ script = P_loop
    /\ phase = "running"
    /\ exec_pos = 0
    /\ fetched = -1
    /\ DOMAIN var_table = {}
LoopHalted ==
    /\ script = P_loop
    /\ Halted
    /\ DOMAIN var_table = {"i", "c"}
    /\ var_table["i"].E_type = T_INT /\ var_table["i"].Data = I64(3)
    /\ var_table["c"].E_type = T_BOOL /\ var_table["c"].Data = FALSE

(* C7: Run on let i, 0 / @loop / add i, 1, i / cmp i, "<", 3, c /         *)
(* when c, @loop, started with an empty variable table, eventually halts  *)
(* with the program counter past the last instruction, i the INT 3 and c  *)
(* the BOOL false.  Checked under FairSpec.                               *)
C7_LoopTerminates == LoopStarted ~> LoopHalted

(* the halted state of the loop, reached in the first Run of the VM *)
C7_Witness == LoopHalted /\ runs = 1 /\ exec_pos = 5 /\ fetched = 4

RunStarts ==
    (phase = "compiled" /\ phase' = "running") =>
        /\ exec_pos' = 0
        /\ label_table' = code.label_table
        /\ var_table' = var_table
GenKeepsTables ==
    (phase = "idle" /\ phase' \in {"compiled", "exited"}) =>
        var_table' = var_table /\ label_table' = label_table
(* the variable table is written by a handler or emptied by Init only *)
VarsWrittenByHandlers ==
    var_table' # var_table =>
        \/ phase = "running" /\ exec_pos <= inst_max
        \/ phase = "idle" /\ phase' = "idle" /\ var_table' = EmptyMap

(* C8: a Run starts at program counter 0 with the label table of the      *)
(* program it runs and with the variable table as the previous Run on the *)
(* VM left it; while it runs, the label table is exactly that program's,  *)
(* so no label of an earlier program is resolvable; Gen_bytecode changes  *)
(* neither the variable table nor the VM's label table.                   *)
C8_SecondRun ==
    /\ [](phase = "running" => label_table = code.label_table)
    /\ [][RunStarts /\ GenKeepsTables /\ VarsWrittenByHandlers]_vars

(* the second Run, after a program that defined @a and bound z, fails on  *)
(* goto @a and still holds z                                              *)
C8_Witness ==
    /\ runs = 2
    /\ script = P_uses_a
    /\ phase = "exited"
    /\ exit.msg = "Argument ERROR: Unset label @a"
    /\ DOMAIN var_table = {"z", "u"}

----------------------------------------------------------------------------
(* Properties of the handlers, checked under SpecOps: after the prelude   *)
(* has bound n, f, b and s, one generated instruction runs.               *)

(* d and v are the outcomes of Get_argument(., T_ANY) for the destination *)
(* and for the value operand of a let that has returned                   *)
SameScalar(d, v) == d.ok /\ v.ok /\ d.val = v.val
SameKind(d, v) == d.ok /\ v.ok /\ d.type = v.type
StrOfLabel(d, v) == d.ok /\ v.ok /\ d.type = (IF v.type = T_LABEL THEN T_STR ELSE v.type)
LetDest == Get_argument(var_table, InstAt(fetched).Args[1], T_ANY)
LetValue == Get_argument(var_table, InstAt(fetched).Args[2], T_ANY)

(* C4 as stated: after let D, V has returned, resolving D under the ANY   *)
(* mask yields the scalar and the kind that resolving V yields, for a V   *)
(* of any kind, LABEL included.                                           *)
C4_LetPreservesKind ==
    Returned("let") => SameKind(LetDest, LetValue) /\ SameScalar(LetDest, LetValue)

(* C4: after let D, V has returned, resolving D under the ANY mask yields *)
(* the scalar that resolving V yields, and the kind of V when that kind   *)
(* is INT, FLOAT, BOOL or STR; for a V of kind LABEL the kind of D is STR *)
(* (the label's name as text).                                            *)
C4_LetPreservesScalar ==
    Returned("let") => StrOfLabel(LetDest, LetValue) /\ SameScalar(LetDest, LetValue)

(* let d, @lab has returned and d is the STR "@lab" *)
C4_Witness ==
    /\ Returned("let")
    /\ InstAt(fetched).Args[2].E_type = T_LABEL
    /\ InstAt(fetched).Args[1].E_type = T_UNDET
    /\ InstAt(fetched).Args[1].Data = Sym_d
    /\ var_table["d"].E_type = T_STR
    /\ var_table["d"].Data = Lit_label

ArithNames == {"add", "sub", "mul", "div", "div_r", "mod", "pow"}
DivNames == {"div", "div_r", "mod"}
ArithNow == phase = "running" /\ exec_pos <= inst_max /\ Mnemonic(exec_pos) \in ArithNames

(* the kind the answer must have, from the kinds of the two inputs *)
ArithKind(m, a, b) ==
    IF a.type = T_INT /\ b.type = T_INT /\ m # "div_r" THEN T_INT ELSE T_FLOAT
ArithDestKind ==
    var_table'[Join(InstAt(exec_pos).Args[3].Data)].E_type

(* C9: when add, sub, mul, div, div_r, mod or pow completes, the value    *)
(* assigned to D has kind INT exactly when both inputs are INT and the    *)
(* instruction is not div_r, and kind FLOAT otherwise.                    *)
C9_ArithResultKind ==
    [][(ArithNow /\ phase' = "running") =>
          ArithDestKind =
              ArithKind(Mnemonic(exec_pos),
                        Get_argument(var_table, InstAt(exec_pos).Args[1], T_ANY),
                        Get_argument(var_table, InstAt(exec_pos).Args[2], T_ANY))]_vars

(* div_r of two INT literals has bound d to a FLOAT *)
C9_Witness ==
    /\ Returned("div_r")
    /\ InstAt(fetched).Args[1].E_type = T_INT
    /\ InstAt(fetched).Args[2].E_type = T_INT
    /\ InstAt(fetched).Args[3].E_type = T_UNDET
    /\ InstAt(fetched).Args[3].Data = Sym_d
    /\ var_table["d"].E_type = T_FLOAT
    /\ var_table["d"].Data = ParseFloat(<<"0", ".", "5">>)

(* the second operand resolves to zero: a is the outcome of resolving the *)
(* first operand as INT or FLOAT, b that of resolving the second under    *)
(* the kind of the first, as arb_calc does                                *)
ZeroOperand(a, b) == b.ok /\ FIsZero(arb_float(a.type, b.val.val))
SecondResolvesToZero(a, arg) ==
    a.ok /\ ZeroOperand(a, Get_argument(var_table, arg, a.type))
DivByZeroNow ==
    /\ ArithNow
    /\ Mnemonic(exec_pos) \in DivNames
    /\ SecondResolvesToZero(
           Get_argument(var_table, InstAt(exec_pos).Args[1], T_INT + T_FLOAT),
           InstAt(exec_pos).Args[2])
DivByZeroExit ==
    /\ phase' = "exited"
    /\ exit' = Exit("runtime_error", "Math ERROR: Division by zero", exec_pos)
    /\ var_table' = var_table

(* C10: div, div_r and mod whose second operand resolves to zero (INT 0   *)
(* or FLOAT 0.0) end in the fatal error Division by zero with the         *)
(* variable table unchanged, so D is not assigned; add, sub, mul and pow  *)
(* never end in that error.                                               *)
C10_DivisionByZero ==
    [][/\ DivByZeroNow => DivByZeroExit
       /\ (ArithNow /\ Mnemonic(exec_pos) \notin DivNames) =>
              exit'.msg # "Math ERROR: Division by zero"]_vars

(* mod f, 0.0, d has failed and d is not bound *)
C10_Witness ==
    /\ phase = "exited"
    /\ exit.msg = "Math ERROR: Division by zero"
    /\ Mnemonic(fetched) = "mod"
    /\ InstAt(fetched).Args[1].E_type = T_UNDET
    /\ InstAt(fetched).Args[1].Data = Sym_f
    /\ InstAt(fetched).Args[2].E_type = T_FLOAT
    /\ InstAt(fetched).Args[3].E_type = T_UNDET
    /\ InstAt(fetched).Args[3].Data = Sym_d
    /\ "d" \notin DOMAIN var_table

----------------------------------------------------------------------------
(* Values computed by the arithmetic handlers, checked under SpecOps.     *)

(* the operands of the arithmetic instruction about to run, resolved as   *)
(* arb_calc resolves them, and its destination operand                    *)
ArithA == Get_argument(var_table, InstAt(exec_pos).Args[1], T_INT + T_FLOAT)
ArithB(kind) == Get_argument(var_table, InstAt(exec_pos).Args[2], kind)
ArithD == InstAt(exec_pos).Args[3]
(* both operands are of the kind and the second is not zero *)
OperandsOf(kind, a, b) ==
    a.ok /\ a.type = kind /\ b.ok /\ ~FIsZero(arb_float(kind, b.val.val))
ArithOn(m, kind) ==
    /\ ArithNow
    /\ Mnemonic(exec_pos) = m
    /\ OperandsOf(kind, ArithA, ArithB(kind))
(* the destination is a symbol that is unbound or bound to the kind *)
DestAccepts(dest, kind) ==
    /\ dest.E_type = T_UNDET
    /\ Join(dest.Data) \in DOMAIN var_table => var_table[Join(dest.Data)].E_type = kind
(* the instruction returned and left its destination bound to ent *)
Assigned(dest) == var_table'[Join(dest.Data)]

(* exact integers of any size, [neg, mag] as int64 without the bound *)
ZNeg(a) == IMake(~a.neg, a.mag)
ZAdd(a, b) ==
    IF a.neg = b.neg THEN IMake(a.neg, BAdd(a.mag, b.mag))
    ELSE IF BCmp(a.mag, b.mag) >= 0 THEN IMake(a.neg, BSub(a.mag, b.mag))
    ELSE IMake(b.neg, BSub(b.mag, a.mag))
ZSub(a, b) == ZAdd(a, ZNeg(b))
ZMul(a, b) == IMake(a.neg # b.neg, BMul(a.mag, b.mag))
ZLeq(a, b) == ~ILess(b, a)
ZAbs(a) == IMake(FALSE, a.mag)
(* x * 2^k, k >= 0 *)
ZShl(a, k) == IMake(a.neg, BShl(a.mag, k))

(* q is the floor of a / b, b # 0 *)
IsFloorQuot(q, a, b) ==
    IF ~b.neg THEN ZLeq(ZMul(q, b), a) /\ ILess(a, ZMul(ZAdd(q, I64(1)), b))
    ELSE ZLeq(a, ZMul(q, b)) /\ ILess(ZMul(ZAdd(q, I64(1)), b), a)

(* |f - a / b| * |b| * 2^s for a finite float64 f = m * 2^e and s >= -e *)
QuotErr(f, a, b, s) ==
    ZAbs(ZSub(ZMul(ZShl(IMake(f.neg, f.mag), f.exp + s), b), ZShl(a, s)))
QuotScale(f) == IF FIsZero(f) THEN -MinExp ELSE 1 - f.exp + MantBits
(* no float64 is nearer to a / b than f: neither of its two neighbours is *)
IsNearestQuot(f, a, b) ==
    /\ FIsFin(f)
    /\ ZLeq(QuotErr(f, a, b, QuotScale(f)), QuotErr(FStep(f, 1), a, b, QuotScale(f)))
    /\ ZLeq(QuotErr(f, a, b, QuotScale(f)), QuotErr(FStep(f, -1), a, b, QuotScale(f)))

(* i is a float64: every integer up to 2^53 in magnitude is *)
Exact53(i) == BCmp(i.mag, BShl(<<1>>, MantBits)) <= 0

DivFloors(a, b, ent) == ent.E_type = T_INT /\ IsFloorQuot(ent.Data, a, b)
DivRDivides(a, b, ent) == ent.E_type = T_FLOAT /\ IsNearestQuot(ent.Data, a, b)

(* C11 as stated: for INT operands a and b with b # 0, div a, b, D binds  *)
(* D to the INT floor(a / b), rounded toward negative infinity, and       *)
(* div_r a, b, D binds D to the FLOAT a / b.                              *)
C11_DivFloorsAll ==
    [][/\ (ArithOn("div", T_INT) /\ DestAccepts(ArithD, T_INT)) =>
              /\ phase' = "running"
              /\ DivFloors(ArithA.val.val, ArithB(T_INT).val.val, Assigned(ArithD))
       /\ (ArithOn("div_r", T_INT) /\ DestAccepts(ArithD, T_FLOAT)) =>
              /\ phase' = "running"
              /\ DivRDivides(ArithA.val.val, ArithB(T_INT).val.val, Assigned(ArithD))]_vars

BothExact53(a, b) == Exact53(a) /\ Exact53(b)
(* C11: for INT operands a and b with b # 0, div a, b, D completes and    *)
(* binds D to an INT, div_r a, b, D completes and binds D to a FLOAT;     *)
(* when a and b are at most 2^53 in magnitude (the integers double        *)
(* precision holds exactly) the INT is floor(a / b), rounded toward       *)
(* negative infinity, and the FLOAT is the float64 nearest to a / b       *)
(* (div 7, 2 gives INT 3, div_r 7, 2 gives FLOAT 3.5).                    *)
C11_DivFloors ==
    [][/\ (ArithOn("div", T_INT) /\ DestAccepts(ArithD, T_INT)) =>
              /\ phase' = "running"
              /\ Assigned(ArithD).E_type = T_INT
              /\ BothExact53(ArithA.val.val, ArithB(T_INT).val.val) =>
                    DivFloors(ArithA.val.val, ArithB(T_INT).val.val, Assigned(ArithD))
       /\ (ArithOn("div_r", T_INT) /\ DestAccepts(ArithD, T_FLOAT)) =>
              /\ phase' = "running"
              /\ Assigned(ArithD).E_type = T_FLOAT
              /\ BothExact53(ArithA.val.val, ArithB(T_INT).val.val) =>
                    DivRDivides(ArithA.val.val, ArithB(T_INT).val.val, Assigned(ArithD))]_vars

(* div -1, 2, d has bound d to INT -1: the quotient is rounded down *)
C11_Witness ==
    /\ Returned("div")
    /\ InstAt(fetched).Args[1].E_type = T_INT /\ InstAt(fetched).Args[1].Data = I64(-1)
    /\ InstAt(fetched).Args[2].E_type = T_INT /\ InstAt(fetched).Args[2].Data = I64(2)
    /\ InstAt(fetched).Args[3].E_type = T_UNDET
    /\ InstAt(fetched).Args[3].Data = Sym_d
    /\ var_table["d"].E_type = T_INT
    /\ var_table["d"].Data = I64(-1)

----------------------------------------------------------------------------
(* The casts, checked under SpecOps.                                      *)

(* the running program is str D, i followed by int D2, D with i an INT *)
RoundTripValue == Get_argument(var_table, InstAt(0).Args[2], T_ANY)
IsRoundTrip ==
    /\ phase \in {"running", "exited"}
    /\ inst_max = 1
    /\ Mnemonic(0) = "str" /\ Mnemonic(1) = "int"
    /\ InstAt(0).Args[1].E_type = T_UNDET
    /\ InstAt(1).Args[1].E_type = T_UNDET
    /\ InstAt(1).Args[2] = InstAt(0).Args[1]
    /\ RoundTripValue.ok /\ RoundTripValue.type = T_INT
RoundTripD == Join(InstAt(0).Args[1].Data)
RoundTripD2 == Join(InstAt(1).Args[1].Data)
(* the str of the round trip has returned *)
StrOfIntDone == IsRoundTrip /\ fetched >= 0 /\ ~(phase = "exited" /\ fetched = 0)
(* the int of the round trip has been fetched *)
IntOfStrDone == IsRoundTrip /\ fetched = 1

Restored(i, ent) == ent.E_type = T_INT /\ ent.Data = i
TextOf(i, ent) ==
    /\ ent.E_type = T_STR
    /\ ent.Data = FormatInt64(i)
    /\ conv_arg(ent.Data).E_type = T_INT
    /\ conv_arg(ent.Data).Data = i

(* C12 as stated: for any INT value i, str D, i followed by int D2, D     *)
(* completes without error and leaves D2 bound to INT i.                  *)
C12_RoundTripRestores ==
    IntOfStrDone =>
        /\ phase = "running"
        /\ RoundTripD2 \in DOMAIN var_table
        /\ Restored(RoundTripValue.val.val, var_table[RoundTripD2])

(* C12: for any INT value i, str D, i binds D to the STR holding the      *)
(* base-10 text of i (a text the operand classifier reads back as INT i), *)
(* and the following int D2, D ends in the fatal Type mismatch at its own *)
(* index, because int resolves its operand as INT or FLOAT only.          *)
C12_RoundTripStopsAtInt ==
    /\ StrOfIntDone =>
          /\ RoundTripD \in DOMAIN var_table
          /\ TextOf(RoundTripValue.val.val, var_table[RoundTripD])
    /\ IntOfStrDone =>
          /\ phase = "exited"
          /\ exit = Exit("runtime_error", "Type ERROR: Type mismatch", 1)
          /\ exec_pos = 1

(* str d, n / int e, d has stopped at the int: d is the STR "7", e is not *)
(* bound                                                                  *)
C12_Witness ==
    /\ IntOfStrDone
    /\ phase = "exited"
    /\ RoundTripD = "d" /\ RoundTripD2 = "e"
    /\ var_table["d"].E_type = T_STR /\ var_table["d"].Data = <<"7">>
    /\ "e" \notin DOMAIN var_table

(* the operand and the destination of the cast that has just returned *)
CastValue == Get_argument(var_table, InstAt(fetched).Args[2], T_ANY)
CastDest == var_table[Join(InstAt(fetched).Args[1].Data)]
StrOfBoolDone ==
    /\ Returned("str")
    /\ CastValue.ok /\ CastValue.type = T_BOOL
LiteralText(v, ent) ==
    /\ ent.E_type = T_STR
    /\ ent.Data = (IF v THEN Lit_true ELSE Lit_false)

(* C13: str D, v with v of kind BOOL binds D to the STR holding the       *)
(* literal text of v: "true" when v is true, "false" when v is false.     *)
C13_StrOfBool == StrOfBoolDone => LiteralText(CastValue.val.val, CastDest)

----------------------------------------------------------------------------
(* Properties of the tokenizer (parse_args), checked under SpecArgs: the  *)
(* source is one line, a mnemonic and an operand text.                    *)

OperandText == LineRest(script, IndexRune(script, " "))
(* the tokenizer's state after its loop over the operand text *)
Tokenized == pa_loop(pa_start, OperandText, 1)
(* a quote was opened and the line ended before it was closed *)
QuoteLeftOpen(t) == t.st = "ok" /\ (t.d_quote \/ t.s_quote)
MissingQuoteText(t) ==
    IF t.d_quote THEN "Syntax ERROR: Missing \"" ELSE "Syntax ERROR: Missing '"
MissingQuoteExit(t) ==
    /\ phase = "exited"
    /\ exit.kind = "compile_error"
    /\ exit.msg = MissingQuoteText(t)

(* C14: for every operand text in which a double or single quote is       *)
(* opened and not closed before the end of the line, a text whose last    *)
(* byte is the opening quote included, the tokenizer ends in the compile  *)
(* error Missing quote and in no other outcome.                           *)
C14_MissingQuote ==
    (script # <<>> /\ QuoteLeftOpen(Tokenized)) => MissingQuoteExit(Tokenized)

----------------------------------------------------------------------------
(* The program counter, checked under Spec.                               *)

PCInRange == phase = "running" => (0 <= exec_pos /\ exec_pos <= inst_max + 1)
(* an empty program is halted from the start: nothing is fetched *)
EmptyHalts ==
    (phase = "running" /\ inst_max = -1) => (exec_pos = 0 /\ fetched = -1 /\ Halted)

(* the handler returned: the counter moved by the step, or by a jump of   *)
(* goto or when to a label of the running program and then the step       *)
Stepped == exec_pos' = exec_pos + 1
Jumped ==
    /\ Mnemonic(exec_pos) \in {"goto", "when"}
    /\ \E L \in DOMAIN code.label_table : exec_pos' = code.label_table[L] + 1
PCMoves ==
    (phase = "running" /\ phase' = "running") =>
        /\ exec_pos <= inst_max
        /\ fetched' = exec_pos
        /\ Stepped \/ Jumped
PCKeptOnExit ==
    (phase = "running" /\ phase' = "exited") =>
        exec_pos <= inst_max /\ fetched' = exec_pos /\ exec_pos' = exec_pos
ReturnsWhenPast ==
    (phase = "running" /\ phase' = "idle") => exec_pos > inst_max

(* C15: during Run, 0 <= PC <= len(instructions); an instruction is       *)
(* fetched only while PC <= last index; the PC changes only by the +1     *)
(* after a handler or by a jump of goto or when to a label index of the   *)
(* running program followed by that +1; Run returns exactly when the PC   *)
(* exceeds the last index, so an empty program halts with no handler      *)
(* invoked.                                                               *)
C15_ProgramCounter ==
    /\ [](PCInRange /\ EmptyHalts)
    /\ [][PCMoves /\ PCKeptOnExit /\ ReturnsWhenPast /\ HaltedReturns]_vars

(* the Run of the empty program: halted at PC 0, nothing fetched *)
C15_Witness ==
    /\ phase = "running"
    /\ script = P_empty
    /\ inst_max = -1
    /\ exec_pos = 0
    /\ fetched = -1
    /\ runs = 1

----------------------------------------------------------------------------
(* Bytes kept by the tokenizer, checked under SpecArgs.                   *)

(* a byte that is neither a separator, a quote nor a space *)
Ordinary(c) == c \notin {",", "\"", "'", " "}
(* the quote state after byte c: "" outside a quoted region, else the     *)
(* quote that opened it                                                   *)
QuoteAfter(q, c) ==
    IF q = "" THEN (IF c \in {"\"", "'"} THEN c ELSE "")
    ELSE IF c = q THEN "" ELSE q
(* the number of ordinary bytes of text[i..] outside quoted regions *)
RECURSIVE OutsideCount(_, _, _)
OutsideCount(text, i, q) ==
    IF i > Len(text) THEN 0
    ELSE (IF q = "" /\ Ordinary(text[i]) THEN 1 ELSE 0)
         + OutsideCount(text, i + 1, QuoteAfter(q, text[i]))
(* the number of bytes of the tokens that are not quoted strings *)
RECURSIVE TokenCount(_, _)
TokenCount(args, i) ==
    IF i > Len(args) THEN 0
    ELSE (IF args[i].E_type = T_STR THEN 0 ELSE Len(args[i].Data))
         + TokenCount(args, i + 1)

(* C16: outside quoted regions every byte other than comma, quote and     *)
(* space is appended to the token buffer in every tokenizer state, also   *)
(* directly after a quoted token has been closed, so every such byte of   *)
(* the operand text is in some emitted token and none is discarded.       *)
C16_NoByteDropped ==
    phase = "compiled" =>
        TokenCount(InstAt(0).Args, 1) = OutsideCount(OperandText, 1, "")

(* the instructions that write a destination, and the position of the     *)
(* destination among their operands                                       *)
Writers ==
    {"let", "add", "sub", "mul", "div", "div_r", "mod", "pow", "cmp",
     "and", "or", "xor", "not", "int", "float", "bool", "str", "cat"}
DestIndex(m) ==
    CASE m \in {"let", "int", "float", "bool", "str"} -> 1
      [] m = "not" -> 2
      [] m = "cmp" -> 4
      [] OTHER -> 3
WriterDest == InstAt(exec_pos).Args[DestIndex(Mnemonic(exec_pos))]
(* a writing instruction is about to run with a destination that is not   *)
(* a bare symbol                                                          *)
NonSymbolDestNow ==
    /\ phase = "running"
    /\ exec_pos <= inst_max
    /\ Mnemonic(exec_pos) \in Writers
    /\ WriterDest.E_type # T_UNDET
(* a name no script binds *)
FreshSymbol == Entity(<<"z", "z">>, T_UNDET)
(* the instruction about to run would complete if its destination were a  *)
(* fresh bare symbol: its sources resolve and its computation succeeds    *)
CompletesWithSymbol ==
    \A o \in Handler(Inst_table[Mnemonic(exec_pos)].Function, var_table, label_table,
                      exec_pos,
                      [InstAt(exec_pos).Args EXCEPT
                           ![DestIndex(Mnemonic(exec_pos))] = FreshSymbol]) :
        o.st = "ok"
(* the run ends in a fatal error or a crash and the table is as it was *)
EndsWithoutWriting ==
    /\ phase' = "exited"
    /\ exit'.kind \in {"runtime_error", "panic"}
    /\ exit'.pos = exec_pos
    /\ var_table' = var_table

(* C17 as stated: every writing instruction whose destination operand is  *)
(* of kind INT, FLOAT, BOOL, STR or LABEL fails with the fatal            *)
(* "Type mismatch" and leaves the variable table unchanged.               *)
C17_NonSymbolDestMismatch ==
    [][NonSymbolDestNow => TypeMismatchExit]_vars

(* C17, amended: a writing instruction whose destination operand is not a *)
(* bare symbol never completes and never changes the variable table; it   *)
(* ends in "Type mismatch" whenever the same instruction with a bare      *)
(* symbol as destination would complete, and for let in every case.       *)
C17_NonSymbolDestFails ==
    [][NonSymbolDestNow =>
          /\ EndsWithoutWriting
          /\ (CompletesWithSymbol \/ Mnemonic(exec_pos) = "let") => TypeMismatchExit]_vars

(* cat 'hi', 'hi', @lab has ended in "Type mismatch" *)
C17_Witness ==
    /\ phase = "exited"
    /\ exit.msg = "Type ERROR: Type mismatch"
    /\ Mnemonic(exit.pos) = "cat"
    /\ InstAt(exit.pos).Args[1].E_type = T_STR
    /\ InstAt(exit.pos).Args[3].E_type = T_LABEL
    /\ "n" \in DOMAIN var_table

(* the masks the handlers pass to Get_argument, and the single kinds *)
Masks ==
    {T_INT, T_FLOAT, T_BOOL, T_STR, T_LABEL, T_INT + T_FLOAT, T_ANY,
     BitXor(T_ANY, T_LABEL), BitXor(BitXor(T_ANY, T_BOOL), T_LABEL)}
(* the positions of the operands of the instruction about to run *)
OperandsNow ==
    IF phase = "running" /\ exec_pos <= inst_max
    THEN 1..Len(InstAt(exec_pos).Args)
    ELSE {}
OperandNow(i) == InstAt(exec_pos).Args[i]
IsBound(arg) == arg.E_type = T_UNDET /\ Join(arg.Data) \in DOMAIN var_table
IsAbsent(arg) == arg.E_type = T_UNDET /\ Join(arg.Data) \notin DOMAIN var_table
(* the kind Get_argument looks at: the literal's, or the bound value's *)
KindBehind(arg) == IF IsBound(arg) THEN var_table[Join(arg.Data)].E_type ELSE arg.E_type
(* what resolving arg under mask must give, r being what it gave *)
ResolvesByMask(arg, mask, r) ==
    /\ r.ok => BitAnd(r.type, mask) # 0 /\ r.type = KindBehind(arg)
    /\ IsAbsent(arg) =>
          ~r.ok /\ r.msg = "Argument ERROR: Unbound symbol " \o Join(arg.Data)
    /\ (~IsAbsent(arg) /\ BitAnd(KindBehind(arg), mask) = 0) =>
          ~r.ok /\ r.msg = "Type ERROR: Type mismatch"
    /\ (~IsAbsent(arg) /\ BitAnd(KindBehind(arg), mask) # 0) => r.ok
MaskRespected ==
    \A i \in OperandsNow : \A mask \in Masks :
        ResolvesByMask(OperandNow(i), mask, Get_argument(var_table, OperandNow(i), mask))

(* the operand a handler resolves first and the mask it resolves it under *)
FirstIndex(m) ==
    CASE m \in {"int", "float", "bool", "str", "when"} -> 2
      [] OTHER -> 1
FirstMask(m) ==
    CASE m \in {"add", "sub", "mul", "div", "div_r", "mod", "pow", "int", "float"}
            -> T_INT + T_FLOAT
      [] m = "cmp" -> BitXor(BitXor(T_ANY, T_BOOL), T_LABEL)
      [] m \in {"and", "or", "xor", "not"} -> T_BOOL
      [] m \in {"bool", "str"} -> BitXor(T_ANY, T_LABEL)
      [] m \in {"cat", "print"} -> T_STR
      [] m \in {"goto", "when"} -> T_LABEL
Resolvers == (Writers \ {"let"}) \cup {"goto", "when", "print"}
FirstResolved ==
    Get_argument(var_table, InstAt(exec_pos).Args[FirstIndex(Mnemonic(exec_pos))],
                 FirstMask(Mnemonic(exec_pos)))
FirstResolveFails ==
    /\ phase = "running"
    /\ exec_pos <= inst_max
    /\ Mnemonic(exec_pos) \in Resolvers
    /\ ~FirstResolved.ok
(* the failed resolution is fatal where it happened, nothing written *)
FailedResolveExit(r) ==
    /\ phase' = "exited"
    /\ exit' = Exit("runtime_error", r.msg, exec_pos)
    /\ var_table' = var_table
    /\ exec_pos' = exec_pos

(* C18: Get_argument yields a (scalar, kind) pair only when the kind      *)
(* shares a bit with the mask; a literal or a bound value whose kind has  *)
(* no bit in the mask ends in the fatal "Type mismatch", an absent symbol *)
(* in the fatal "Unbound symbol"; the variable table and the program      *)
(* counter are as they were when the resolution fails.                    *)
C18_GetArgument ==
    /\ []MaskRespected
    /\ [][FirstResolveFails => FailedResolveExit(FirstResolved)]_vars

(* int e, d with d bound to a STR has ended in "Type mismatch" *)
C18_Witness ==
    /\ phase = "exited"
    /\ exit.msg = "Type ERROR: Type mismatch"
    /\ Mnemonic(exit.pos) = "int"
    /\ InstAt(exit.pos).Args[2].E_type = T_UNDET
    /\ Join(InstAt(exit.pos).Args[2].Data) \in DOMAIN var_table
    /\ var_table[Join(InstAt(exit.pos).Args[2].Data)].E_type = T_STR

(* b divides a - r *)
LeavesRem(r, a, b) == BDivMod(ZSub(a, r).mag, b.mag).r = <<>>
(* r is the truncated remainder of a by b, b # 0: a = b * q + r for the   *)
(* quotient q rounded toward zero, so r is smaller than b in magnitude    *)
(* and has the sign of a                                                  *)
IsTruncRem(r, a, b) ==
    /\ BCmp(r.mag, b.mag) < 0
    /\ r.mag # <<>> => r.neg = a.neg
    /\ LeavesRem(r, a, b)
(* r is not the remainder a - b * floor(a / b) that pairs with div, which *)
(* has the sign of b                                                      *)
NotFloorRem(r, a, b) ==
    ~(/\ BCmp(r.mag, b.mag) < 0
      /\ r.mag # <<>> => r.neg = b.neg
      /\ LeavesRem(r, a, b))
ModTruncates(a, b, ent) ==
    /\ ent.E_type = T_INT
    /\ IsTruncRem(ent.Data, a, b)
    /\ (a.neg /\ ~b.neg /\ ent.Data # I64(0)) => NotFloorRem(ent.Data, a, b)

(* C19 as stated: for INT operands a and b with b # 0, mod a, b, D binds  *)
(* D to the INT truncated remainder a - b * trunc(a / b), whose sign      *)
(* follows the dividend a; for a negative a and a positive b that does    *)
(* not divide a it is not the remainder of the floor division.            *)
C19_ModTruncatesAll ==
    [][(ArithOn("mod", T_INT) /\ DestAccepts(ArithD, T_INT)) =>
          /\ phase' = "running"
          /\ ModTruncates(ArithA.val.val, ArithB(T_INT).val.val, Assigned(ArithD))]_vars

(* C19: for INT operands a and b with b # 0, mod a, b, D completes and    *)
(* binds D to an INT; when a and b are at most 2^53 in magnitude (the     *)
(* integers double precision holds exactly) it is the truncated           *)
(* remainder a - b * trunc(a / b), whose sign follows the dividend a, and *)
(* for a negative a and a positive b that does not divide a it is not the *)
(* remainder of the floor division computed by div.                       *)
C19_ModTruncates ==
    [][(ArithOn("mod", T_INT) /\ DestAccepts(ArithD, T_INT)) =>
          /\ phase' = "running"
          /\ Assigned(ArithD).E_type = T_INT
          /\ BothExact53(ArithA.val.val, ArithB(T_INT).val.val) =>
                ModTruncates(ArithA.val.val, ArithB(T_INT).val.val, Assigned(ArithD))]_vars

(* mod -1, 2, d has bound d to INT -1, where div -1, 2 gives -1 and the   *)
(* remainder that pairs with it is 1                                      *)
C19_Witness ==
    /\ Returned("mod")
    /\ InstAt(fetched).Args[1].E_type = T_INT /\ InstAt(fetched).Args[1].Data = I64(-1)
    /\ InstAt(fetched).Args[2].E_type = T_INT /\ InstAt(fetched).Args[2].Data = I64(2)
    /\ InstAt(fetched).Args[3].E_type = T_UNDET
    /\ InstAt(fetched).Args[3].Data = Sym_d
    /\ var_table["d"].E_type = T_INT
    /\ var_table["d"].Data = I64(-1)

(* ent is the FLOAT value of the remainder of the truncated operands *)
ModOfTruncated(a, b, ent) ==
    /\ ent.E_type = T_FLOAT
    /\ FIsFin(ent.Data) /\ ~FHasFrac(ent.Data)
    /\ IsTruncRem(FTrunc(ent.Data), FTrunc(a), FTrunc(b))

(* C20: for FLOAT operands a and b with b # 0.0, mod a, b, D always       *)
(* completes and binds D to the FLOAT value of the remainder of the two   *)
(* operands truncated toward zero; it neither fails nor crashes for a     *)
(* nonzero b, a b with 0 < |b| < 1 included.                              *)
C20_FloatModCompletes ==
    [][(ArithOn("mod", T_FLOAT) /\ DestAccepts(ArithD, T_FLOAT)) =>
          /\ phase' = "running"
          /\ ModOfTruncated(ArithA.val.val, ArithB(T_FLOAT).val.val, Assigned(ArithD))]_vars

(* the kinds itoentity can give a stored value *)
StoredKinds == {T_INT, T_FLOAT, T_BOOL, T_STR}
KindsStored == \A n \in DOMAIN var_table : var_table[n].E_type \in StoredKinds
(* the number of table lookups Get_argument makes to resolve arg *)
RECURSIVE Indirections(_, _)
Indirections(vt, arg) ==
    IF arg.E_type = T_UNDET /\ Join(arg.Data) \in DOMAIN vt
    THEN 1 + Indirections(vt, vt[Join(arg.Data)])
    ELSE 0
OneIndirection ==
    /\ \A n \in DOMAIN var_table : Indirections(var_table, var_table[n]) = 0
    /\ \A i \in OperandsNow : Indirections(var_table, OperandNow(i)) <= 1
(* the label operand of the goto or when about to run is a symbol *)
JumpTarget == InstAt(exec_pos).Args[IF Mnemonic(exec_pos) = "when" THEN 2 ELSE 1]
JumpOnSymbol ==
    /\ phase = "running"
    /\ exec_pos <= inst_max
    /\ Mnemonic(exec_pos) \in {"goto", "when"}
    /\ JumpTarget.E_type = T_UNDET
UnboundSymbolExit(arg) ==
    /\ phase' = "exited"
    /\ exit' = Exit("runtime_error",
                    "Argument ERROR: Unbound symbol " \o Join(arg.Data), exec_pos)
    /\ var_table' = var_table
(* no jump is taken from a symbol: a variable as target is a kind error,  *)
(* a name that is not bound is reported as such                           *)
NoJumpFromSymbol ==
    JumpOnSymbol =>
        /\ exec_pos' = exec_pos
        /\ IF IsBound(JumpTarget) THEN TypeMismatchExit ELSE UnboundSymbolExit(JumpTarget)

(* C21: every value in the variable table has kind INT, FLOAT, BOOL or    *)
(* STR, never UNDET or LABEL; so resolving an operand follows at most one *)
(* indirection, and a jump target is never taken from a variable: goto    *)
(* and when on a symbol operand that names a variable fail with           *)
(* "Type mismatch".                                                       *)
C21_StoredKinds ==
    /\ [](KindsStored /\ OneIndirection)
    /\ [][NoJumpFromSymbol]_vars

(* let q, @lab bound q to the STR "@lab" and goto q ended in              *)
(* "Type mismatch" although @lab is defined                               *)
C21_Witness ==
    /\ phase = "exited"
    /\ exit.msg = "Type ERROR: Type mismatch"
    /\ Mnemonic(exit.pos) = "goto"
    /\ "@lab" \in DOMAIN label_table
    /\ "q" \in DOMAIN var_table
    /\ var_table["q"].E_type = T_STR
    /\ var_table["q"].Data = Lit_label

WhenLabel == Get_argument(var_table, InstAt(exec_pos).Args[2], T_LABEL)
WhenCond == Get_argument(var_table, InstAt(exec_pos).Args[1], T_BOOL)
(* the label is resolved first: its failure is the one reported *)
WhenLabelFirst(l) ==
    ~l.ok =>
        /\ phase' = "exited"
        /\ exit' = Exit("runtime_error", l.msg, exec_pos)
(* both operands resolve and the label is not in the table: fatal,        *)
(* whatever the condition                                                 *)
WhenUnset(l, c) ==
    (l.ok /\ c.ok /\ Join(l.val.val) \notin DOMAIN label_table) =>
        /\ phase' = "exited"
        /\ exit' = Exit("runtime_error",
                        "Argument ERROR: Unset label " \o Join(l.val.val), exec_pos)
        /\ var_table' = var_table
(* the label is defined and the condition false: the next instruction *)
WhenFallsThrough(l, c) ==
    (l.ok /\ c.ok /\ Join(l.val.val) \in DOMAIN label_table /\ ~c.val.val) =>
        /\ phase' = "running"
        /\ exec_pos' = exec_pos + 1
        /\ var_table' = var_table

(* C22: when cond, L resolves L and looks it up in the label table before *)
(* it tests cond: with a label that is absent from the running program's  *)
(* label table it ends in the fatal "Unset label" even when cond is       *)
(* false; with a defined label and a false cond the handler leaves the    *)
(* program counter alone and the following instruction runs next.         *)
C22_WhenChecksLabelFirst ==
    [][AboutTo("when") =>
          /\ WhenLabelFirst(WhenLabel)
          /\ WhenUnset(WhenLabel, WhenCond)
          /\ WhenFallsThrough(WhenLabel, WhenCond)]_vars

(* when false, @no has ended in "Unset label" *)
C22_Witness ==
    /\ phase = "exited"
    /\ exit.msg = "Argument ERROR: Unset label @no"
    /\ Mnemonic(exit.pos) = "when"
    /\ InstAt(exit.pos).Args[1].E_type = T_BOOL
    /\ InstAt(exit.pos).Args[1].Data = FALSE

====
